---- MODULE Spec2Model ----
(***************************************************************************)
(* Model of the version-control-backed evolution core of gaia-archtree:    *)
(* the shared git repository, WorktreeManager, MutationBrancher and the    *)
(* trial-merge probe of EvolutionMerger.                                   *)
(*                                                                         *)
(* Every public method is an async function.  JavaScript runs it without   *)
(* interruption up to each `await`; other calls can run between an await   *)
(* being issued and its continuation.  A call is therefore a small process *)
(* (a slot of `calls`) and one action is: the effect of the awaited        *)
(* operation followed by the synchronous code up to the next await.        *)
(***************************************************************************)
EXTENDS Integers, FiniteSets, Sequences, TLC

(* ------------------------------ bounds --------------------------------- *)
\* number of calls that can be in flight at the same time
MaxCalls == 2
\* distinct evolutionId values callers pass to createEvolutionWorktree
MaxEvolutions == 3
\* worktree ids handed out over a run (one Date.now() stamp each)
MaxSerial == 3
\* mutation ids handed out over a run
MaxMutations == 3
\* commits made over a run
MaxCommits == 2
\* entries appended to MutationBrancher.branchHistory over a run
MaxHistory == 2

\* worktrees and mutations created in the specification that runs every
\* operation (SpecSeq), and mutations created in those about commits, merges
\* and probes on a shared checkout (SpecShared, SpecProbe)
SeqIds == 1
SharedIds == 2
\* commits made in the specification of overlapping commits and merges
SharedCommits == 1
\* mutations passed to one executeIntelligentMerge call
MaxBatch == 2
\* mutations created in the specification of the evaluation
EvaluateIds == 2
\* size of the worktree pool and of the active-mutation set
PoolBound == 2
MutationBound == 2
\* size of the set of active lineages
LineageBound == 2
\* objectives registered with the optimizer, solutions evaluated over a run,
\* and the largest finite value an objective evaluator returns
MaxObjectives == 3
MaxPopulation == 4
MaxValue == 3
\* size of the population optimize() keeps, and the largest generation budget
PopulationBound == 2
MaxGenerations == 5

(* ------------------------ program constants ---------------------------- *)
\* this.maxWorktrees = 10 and this.maxConcurrentMutations = 8 in the source.
\* Both are instance fields read only in the comparison `size >= max`; the
\* model scales them to its pool bounds.
maxWorktrees == PoolBound
maxConcurrentMutations == MutationBound
\* EvolutionBirther.maxActiveLineages (5), scaled the same way
maxActiveLineages == LineageBound
\* MultiObjectiveOptimizer.populationSize (50), scaled the same way
populationSize == PopulationBound
\* fitness values are kept as exact integers: value * FitnessScale
FitnessScale == 200000

Calls == 1..MaxCalls
EvolutionIds == 1..MaxEvolutions

(* ------------------------------ branches ------------------------------- *)
Main == [kind |-> "base", id |-> 0]
Dev == [kind |-> "base", id |-> 1]
BaseBranches == {Main, Dev}
NoBranch == [kind |-> "none", id |-> 0]
\* `evolution/${evolutionId}`
EvolutionBranch(e) == [kind |-> "evolution", id |-> e]
\* `mutation/${mutationType}/${mutationId}`; the id alone is unique
MutationBranch(m) == [kind |-> "mutation", id |-> m]

NoWid == <<0, 0>>

(* ------------------------------ pantheon ------------------------------- *)
\* names registered by AshvatthaTree.initializePantheon (a representative few)
LightGods == {"Brahma", "Vishnu"}
ShadowGods == {"Shiva", "Kali"}
\* god names callers pass; "odin" is not registered
WorktreeGods == {"Brahma", "odin"}

VARIABLES
    repo,              \* the shared git repository
    worktrees,         \* WorktreeManager.worktrees: worktreeId -> worktree
    cleaned,           \* ids of the worktree objects removed with status 'cleaned'
    nextSerial,        \* next Date.now() stamp used in a worktreeId
    mutationBranches,  \* MutationBrancher.mutationBranches: id -> mutation
    activeMutations,   \* MutationBrancher.activeMutations
    lineages,          \* EvolutionBirther.lineages: the ids of its keys
    branchHistory,     \* MutationBrancher.branchHistory (ids, in order)
    nextMutation,      \* next id generateMutationId hands out
    balance,           \* treeCoordinator.trunk.balance
    objectives,        \* MultiObjectiveOptimizer.objectives, in insertion order
    population,        \* the evaluated solutions: id -> solution.evaluation
    paretoFronts,      \* MultiObjectiveOptimizer.paretoFronts (ids, in order)
    newPopulation,     \* what the last selection() call returned (ids)
    requested,         \* the size that call asked for (-1: no call yet)
    passed,            \* the population that call was given (ids)
    threw,             \* whether that call threw
    crowded,           \* the front last passed to calculateCrowdingDistance
    generations,       \* MultiObjectiveOptimizer.generations
    optimizeRun,       \* the optimize() call: where it is, its loop counter,
                       \* its budget and its local population (ids)
    interventions,     \* the intervention objects createIntervention made, by id
    activeInterventions, \* DivineInterventionEngine.activeInterventions (its keys)
    interventionHistory, \* DivineInterventionEngine.interventionHistory (ids, in order)
    executeCall,       \* the executeIntervention call: where it is and its argument
    calls              \* the calls in flight, and the result of finished ones

\* the state of the MultiObjectiveOptimizer
optimizer == <<objectives, population, paretoFronts, newPopulation, requested,
               passed, threw, crowded, generations, optimizeRun>>

\* the state of the DivineInterventionEngine
engine == <<interventions, activeInterventions, interventionHistory, executeCall>>

vars == <<repo, worktrees, cleaned, nextSerial, mutationBranches, activeMutations,
          branchHistory, nextMutation, balance, lineages, optimizer, engine, calls>>

(* --------------------------- small helpers ----------------------------- *)
Min(a, b) == IF a < b THEN a ELSE b
Max(a, b) == IF a > b THEN a ELSE b
Abs(x) == IF x < 0 THEN -x ELSE x
Put(f, k, v) == [x \in (DOMAIN f) \cup {k} |-> IF x = k THEN v ELSE f[x]]
Drop(f, k) == [x \in (DOMAIN f) \ {k} |-> f[x]]
EmptyMap == [x \in {} |-> 0]

(* ------------------------- the git repository -------------------------- *)
\* head[b]: the commits reachable from branch b; current: HEAD of the main
\* checkout; wt: the linked worktrees (path -> branch checked out there);
\* merging/conflicted: MERGE_HEAD exists / the index has unmerged paths;
\* madeOn: for every commit, the branch it was created on.
InitRepo ==
    [head |-> [b \in BaseBranches |-> {}],
     current |-> Main,
     wt |-> EmptyMap,
     merging |-> FALSE,
     conflicted |-> FALSE,
     madeOn |-> EmptyMap]

Exists(r, b) == b \in DOMAIN r.head
CheckedOutInWorktree(r, b) == \E p \in DOMAIN r.wt : r.wt[p] = b
Failed(r) == [ok |-> FALSE, repo |-> r]
Done(r) == [ok |-> TRUE, repo |-> r]

\* git checkout <b>
GitCheckout(r, b) ==
    IF Exists(r, b) /\ ~CheckedOutInWorktree(r, b) /\ ~r.conflicted
    THEN Done([r EXCEPT !.current = b])
    ELSE Failed(r)

\* git checkout -b <b>
GitCheckoutLocalBranch(r, b) ==
    IF ~Exists(r, b) /\ ~r.conflicted
    THEN Done([r EXCEPT !.head = Put(r.head, b, r.head[r.current]),
                        !.current = b])
    ELSE Failed(r)

\* git worktree add <path> <b>
GitWorktreeAdd(r, path, b) ==
    IF Exists(r, b) /\ r.current # b /\ ~CheckedOutInWorktree(r, b)
       /\ path \notin DOMAIN r.wt
    THEN Done([r EXCEPT !.wt = Put(r.wt, path, b)])
    ELSE Failed(r)

\* git worktree remove <path> --force
GitWorktreeRemove(r, path) ==
    IF path \in DOMAIN r.wt
    THEN Done([r EXCEPT !.wt = Drop(r.wt, path)])
    ELSE Failed(r)

\* git branch -D <b>
GitDeleteLocalBranch(r, b) ==
    IF Exists(r, b) /\ r.current # b /\ ~CheckedOutInWorktree(r, b)
    THEN Done([r EXCEPT !.head = Drop(r.head, b)])
    ELSE Failed(r)

NextCommit(r) == Cardinality(DOMAIN r.madeOn) + 1

\* git add . ; git commit, in the checkout whose HEAD is branch b
GitCommitOn(r, b) ==
    IF Exists(r, b)
    THEN Done([r EXCEPT !.head[b] = @ \cup {NextCommit(r)},
                        !.madeOn = Put(r.madeOn, NextCommit(r), b)])
    ELSE Failed(r)

\* git add . ; git commit, in the main checkout
GitCommit(r) ==
    IF r.conflicted THEN Failed(r) ELSE
    LET c == GitCommitOn(r, r.current)
    IN  [c EXCEPT !.repo.merging = FALSE]

\* git merge <from> <to>: merges both into HEAD.  `conflict` is whether the
\* contents conflict; then the merge stops with unmerged paths and
\* simple-git's merge() rejects.
GitMergeFromTo(r, from, to, conflict) ==
    IF ~Exists(r, from) \/ ~Exists(r, to) \/ r.merging
    THEN Failed(r)
    ELSE LET incoming == r.head[from] \cup r.head[to]
         IN  IF incoming \subseteq r.head[r.current] THEN Done(r)
             ELSE IF conflict
             THEN Failed([r EXCEPT !.merging = TRUE, !.conflicted = TRUE])
             ELSE Done([r EXCEPT !.head[r.current] = @ \cup incoming])

(* ------------------------------- calls --------------------------------- *)
\* op, pc, res: the method, the await it is suspended at, its outcome;
\* wid, mid, branch, god, type, thr, acc: its arguments and locals;
\* before, trial, found: what a conflict probe saw (the branches when it
\* started, how its trial merge ended, whether status listed conflicts);
\* lid: the id of the lineage a birth or a termination is about;
\* muts, strategy, idx, ev: the mutations and strategy passed to a merge, the
\* loop index and the evaluation; merged, total: the counters of a strategy;
\* counted, tried: the mutations it counted as merged, and those it passed to
\* git merge with how the merge ended, in order.
NoEvaluation ==
    [eligible |-> << >>, pending |-> << >>, rejected |-> << >>, conflicts |-> << >>]
Idle ==
    [op |-> "none", pc |-> "done", res |-> "none", wid |-> NoWid, mid |-> 0,
     branch |-> NoBranch, god |-> "none", type |-> "none", thr |-> 0,
     acc |-> 0, before |-> << >>, trial |-> "none", found |-> FALSE, lid |-> 0,
     muts |-> << >>, strategy |-> "none", idx |-> 0, ev |-> NoEvaluation,
     merged |-> 0, total |-> 0, counted |-> << >>, tried |-> << >>]

InFlight(c) == calls[c].pc # "done"
\* a new call takes the first slot that holds no call in flight
Free(c) == ~InFlight(c) /\ \A d \in Calls : d < c => InFlight(d)

\* a call of method op that ends before its first await, with result res
Returned(op, res) == [Idle EXCEPT !.op = op, !.res = res]
\* the call in slot c ends with result res; its arguments and locals are gone
Finish(c, res) == calls' = [calls EXCEPT ![c] = Returned(calls[c].op, res)]
Goto(c, pc) == calls' = [calls EXCEPT ![c].pc = pc]

\* an awaited git command either runs (outcome `run`) or fails for a reason
\* outside the repository state (lock file, disk, permissions)
Outcomes(r, run) == {run, Failed(r)}

\* what the MutationBrancher, the merger and the birther leave alone of the
\* WorktreeManager, and what the WorktreeManager leaves alone of the others;
\* the map of lineages belongs to the birther alone
UNCHANGED_WT == UNCHANGED <<worktrees, cleaned, nextSerial, lineages, optimizer, engine>>
UNCHANGED_MB == UNCHANGED <<mutationBranches, activeMutations, branchHistory,
                            nextMutation, balance, lineages, optimizer, engine>>

(* ---------------------------- AshvatthaTree ---------------------------- *)
\* activateGod: throws for a name that is in neither map
GodKnown(g) == g \in LightGods \cup ShadowGods
Realm(g) == IF g \in LightGods THEN "light" ELSE "shadow"

(* --------------------------- WorktreeManager --------------------------- *)
WorktreeIds == EvolutionIds \X (1..MaxSerial)
\* worktree ids a caller can hold: those handed out so far
KnownWorktreeIds == DOMAIN worktrees \cup cleaned

AtCapacityMutant(size) == size > maxWorktrees
\* this.worktrees.size >= this.maxWorktrees
AtCapacity(size) == size >= maxWorktrees

\* createEvolutionWorktree: capacity check, ids, invokeGod (which activates
\* the god synchronously and then awaits a timer)
CreateWorktreeStart(c) ==
    /\ Free(c)
    /\ \E e \in 1..Min(MaxEvolutions, nextSerial),
          base \in BaseBranches, god \in WorktreeGods :
          IF AtCapacity(Cardinality(DOMAIN worktrees))
          THEN /\ calls' = [calls EXCEPT ![c] = Returned("createEvolutionWorktree", "capacity")]
               /\ UNCHANGED nextSerial
          ELSE /\ nextSerial <= MaxSerial
               /\ nextSerial' = nextSerial + 1
               /\ IF GodKnown(god)
                  THEN calls' = [calls EXCEPT ![c] =
                                   [Idle EXCEPT !.op = "createEvolutionWorktree",
                                                !.pc = "cw_branch",
                                                !.res = "pending",
                                                !.wid = <<e, nextSerial>>,
                                                !.branch = base,
                                                !.god = god]]
                  ELSE calls' = [calls EXCEPT ![c] = Returned("createEvolutionWorktree", "error")]
    /\ UNCHANGED <<repo, worktrees, cleaned>>
    /\ UNCHANGED_MB

\* await this.git.checkoutLocalBranch(branchName)
CreateWorktreeBranch(c) ==
    /\ calls[c].pc = "cw_branch"
    /\ \E g \in Outcomes(repo, GitCheckoutLocalBranch(repo, EvolutionBranch(calls[c].wid[1]))) :
          /\ repo' = g.repo
          /\ IF g.ok THEN Goto(c, "cw_checkout") ELSE Finish(c, "error")
    /\ UNCHANGED_WT
    /\ UNCHANGED_MB

\* await this.git.checkout(baseBranch)
CreateWorktreeCheckout(c) ==
    /\ calls[c].pc = "cw_checkout"
    /\ \E g \in Outcomes(repo, GitCheckout(repo, calls[c].branch)) :
          /\ repo' = g.repo
          /\ IF g.ok THEN Goto(c, "cw_add") ELSE Finish(c, "error")
    /\ UNCHANGED_WT
    /\ UNCHANGED_MB

\* the worktree record; id, path and branchName follow from the map key, and
\* evolutionId, baseBranch and created are never read again
NewWorktree(call) ==
    [god |-> call.god,
     status |-> "active",
     commits |-> << >>,
     mutations |-> 0,
     fitness |-> 0]

BranchOfWorktree(wid) == EvolutionBranch(wid[1])

\* await this.git.raw(['worktree', 'add', ...]); this.worktrees.set(...)
CreateWorktreeAdd(c) ==
    /\ calls[c].pc = "cw_add"
    /\ \E g \in Outcomes(repo, GitWorktreeAdd(repo, calls[c].wid,
                                              BranchOfWorktree(calls[c].wid))) :
          /\ repo' = g.repo
          /\ IF g.ok
             THEN /\ worktrees' = Put(worktrees, calls[c].wid, NewWorktree(calls[c]))
                  /\ Finish(c, "ok")
             ELSE /\ UNCHANGED worktrees
                  /\ Finish(c, "error")
    /\ UNCHANGED <<nextSerial, cleaned>>
    /\ UNCHANGED_MB

\* the worktree object a call holds stays the one in the map until cleanup
\* removes it; writes to a removed object are seen by nobody
UpdateWorktree(wid, w) ==
    IF wid \in DOMAIN worktrees THEN [worktrees EXCEPT ![wid] = w] ELSE worktrees
WorktreeOf(c) == worktrees[calls[c].wid]
Registered(c) == calls[c].wid \in DOMAIN worktrees

\* calls that still have a commit to make
CommittingIn(cs) == {c \in Calls : cs[c].pc \in {"am_commit", "mc_checkout", "mc_commit"}}
Committing == CommittingIn(calls)
MayCommit == NextCommit(repo) + Cardinality(Committing) <= MaxCommits

\* applyMutation: lookup, then applyMutationChanges (file writes) is awaited
ApplyMutationStart(c) ==
    /\ Free(c)
    /\ \E wid \in KnownWorktreeIds :
          IF wid \notin DOMAIN worktrees
          THEN calls' = [calls EXCEPT ![c] =
                           [Returned("applyMutation", "notfound") EXCEPT !.wid = wid]]
          ELSE /\ MayCommit
               /\ calls' = [calls EXCEPT ![c] =
                              [Idle EXCEPT !.op = "applyMutation", !.pc = "am_commit",
                                           !.res = "pending", !.wid = wid,
                                           !.god = worktrees[wid].god]]
    /\ UNCHANGED repo
    /\ UNCHANGED_WT
    /\ UNCHANGED_MB

\* godBonuses[worktree.god] || 10
GodBonus(god) ==
    CASE god = "Brahma" -> 20
      [] god = "Vishnu" -> 15
      [] god = "Shiva" -> 25
      [] god = "Saraswati" -> 18
      [] god = "Lakshmi" -> 12
      [] god = "Kali" -> 22
      [] god = "Durga" -> 16
      [] OTHER -> 10

\* Math.max(0.5, 1 - ageInHours / 24), in percent: the clock is an input
TimeFactors == {50, 100}
\* stats.fileCount; 0 also when getWorktreeStats fails
FileCounts == {0, 20}

\* calculateWorktreeFitness up to its await: (commits*10 + mutations*5 +
\* bonus) * timeFactor, in hundredths
WorktreeFitnessBase(w, tf) ==
    (Len(w.commits) * 10 + w.mutations * 5 + GodBonus(w.god)) * tf

\* ... and after it: + fileCount * 2, clamped to 0..100 (times FitnessScale)
WorktreeFitness(acc, files) ==
    Max(0, Min(100 * FitnessScale,
               acc * (FitnessScale \div 100) + files * 2 * FitnessScale))

\* worktree.git runs in the worktree directory.  After `worktree remove` the
\* directory is re-made by ensureDir inside the main working tree, where git
\* finds the main repository.
GitCommitInWorktree(r, path) ==
    IF path \in DOMAIN r.wt THEN GitCommitOn(r, r.wt[path]) ELSE GitCommit(r)

\* await worktree.git.add('.'); await worktree.git.commit(...); then
\* commits.push, mutations++ and the synchronous head of
\* calculateWorktreeFitness
ApplyMutationCommit(c) ==
    /\ calls[c].pc = "am_commit"
    /\ \E g \in Outcomes(repo, GitCommitInWorktree(repo, calls[c].wid)),
          tf \in TimeFactors :
          /\ repo' = g.repo
          /\ IF g.ok
             THEN LET old == IF Registered(c) THEN WorktreeOf(c)
                             ELSE [NewWorktree(calls[c]) EXCEPT !.status = "cleaned"]
                      w == [old EXCEPT !.commits = Append(@, NextCommit(repo)),
                                       !.mutations = @ + 1]
                  IN  /\ worktrees' = UpdateWorktree(calls[c].wid, w)
                      /\ calls' = [calls EXCEPT ![c].pc = "am_fitness",
                                                ![c].acc = WorktreeFitnessBase(w, tf)]
             ELSE /\ UNCHANGED worktrees
                  /\ Finish(c, "error")
    /\ UNCHANGED <<nextSerial, cleaned>>
    /\ UNCHANGED_MB

\* worktree.fitness = await this.calculateWorktreeFitness(worktree)
ApplyMutationFitness(c) ==
    /\ calls[c].pc = "am_fitness"
    /\ \E files \in FileCounts :
          worktrees' = IF Registered(c)
                       THEN UpdateWorktree(calls[c].wid,
                               [WorktreeOf(c) EXCEPT !.fitness =
                                    WorktreeFitness(calls[c].acc, files)])
                       ELSE worktrees
    /\ Finish(c, "ok")
    /\ UNCHANGED <<repo, nextSerial, cleaned>>
    /\ UNCHANGED_MB

\* fitnessThreshold values callers pass
Thresholds == {30, 70}

BelowThresholdMutant(fitness, thr) == FALSE
\* worktree.fitness < fitnessThreshold
BelowThreshold(fitness, thr) == fitness < thr * FitnessScale

\* mergeEvolution: lookup and fitness gate
MergeEvolutionStart(c) ==
    /\ Free(c)
    /\ \E wid \in KnownWorktreeIds, target \in BaseBranches, thr \in Thresholds :
          IF wid \notin DOMAIN worktrees
          THEN calls' = [calls EXCEPT ![c] = Returned("mergeEvolution", "notfound")]
          ELSE IF BelowThreshold(worktrees[wid].fitness, thr)
          THEN calls' = [calls EXCEPT ![c] =
                           [Returned("mergeEvolution", "false")
                               EXCEPT !.wid = wid, !.thr = thr]]
          ELSE calls' = [calls EXCEPT ![c] =
                           [Idle EXCEPT !.op = "mergeEvolution", !.pc = "me_checkout",
                                        !.res = "pending", !.wid = wid,
                                        !.branch = target, !.thr = thr]]
    /\ UNCHANGED repo
    /\ UNCHANGED_WT
    /\ UNCHANGED_MB

MergeFailedWorktree(c) ==
    IF Registered(c)
    THEN UpdateWorktree(calls[c].wid, [WorktreeOf(c) EXCEPT !.status = "merge_failed"])
    ELSE worktrees

\* await this.git.checkout(targetBranch)
MergeEvolutionCheckout(c) ==
    /\ calls[c].pc = "me_checkout"
    /\ \E g \in Outcomes(repo, GitCheckout(repo, calls[c].branch)) :
          /\ repo' = g.repo
          /\ IF g.ok
             THEN /\ Goto(c, "me_merge")
                  /\ UNCHANGED worktrees
             ELSE /\ worktrees' = MergeFailedWorktree(c)
                  /\ Finish(c, "error")
    /\ UNCHANGED <<nextSerial, cleaned>>
    /\ UNCHANGED_MB

\* await this.git.mergeFromTo(worktree.branchName, targetBranch)
MergeEvolutionMerge(c) ==
    /\ calls[c].pc = "me_merge"
    /\ \E conflict \in BOOLEAN :
       \E g \in Outcomes(repo, GitMergeFromTo(repo, BranchOfWorktree(calls[c].wid),
                                              calls[c].branch, conflict)) :
          /\ repo' = g.repo
          /\ IF g.ok
             THEN /\ worktrees' = IF Registered(c)
                                  THEN UpdateWorktree(calls[c].wid,
                                          [WorktreeOf(c) EXCEPT !.status = "merged"])
                                  ELSE worktrees
                  /\ Finish(c, "true")
             ELSE /\ worktrees' = MergeFailedWorktree(c)
                  /\ Finish(c, "error")
    /\ UNCHANGED <<nextSerial, cleaned>>
    /\ UNCHANGED_MB

\* cleanupWorktree: lookup
CleanupWorktreeStart(c) ==
    /\ Free(c)
    /\ \E wid \in KnownWorktreeIds :
          IF wid \notin DOMAIN worktrees
          THEN calls' = [calls EXCEPT ![c] =
                           Returned("cleanupWorktree", "notfound")]
          ELSE calls' = [calls EXCEPT ![c] =
                           [Idle EXCEPT !.op = "cleanupWorktree", !.pc = "cl_remove",
                                        !.res = "pending", !.wid = wid]]
    /\ UNCHANGED repo
    /\ UNCHANGED_WT
    /\ UNCHANGED_MB

\* await this.git.raw(['worktree', 'remove', worktree.path, '--force'])
CleanupWorktreeRemove(c) ==
    /\ calls[c].pc = "cl_remove"
    /\ \E g \in Outcomes(repo, GitWorktreeRemove(repo, calls[c].wid)) :
          /\ repo' = g.repo
          /\ IF g.ok THEN Goto(c, "cl_branch") ELSE Finish(c, "error")
    /\ UNCHANGED_WT
    /\ UNCHANGED_MB

\* this.worktrees.delete(worktreeId)
DeleteFromPool(pool, wid) == Drop(pool, wid)

\* await this.git.deleteLocalBranch(...) in its own try/catch; then status =
\* 'cleaned' and this.worktrees.delete(worktreeId)
CleanupWorktreeBranch(c) ==
    /\ calls[c].pc = "cl_branch"
    /\ \E g \in Outcomes(repo, GitDeleteLocalBranch(repo, BranchOfWorktree(calls[c].wid))) :
          repo' = g.repo
    /\ worktrees' = DeleteFromPool(worktrees, calls[c].wid)
    /\ cleaned' = cleaned \cup {calls[c].wid}
    /\ Finish(c, "ok")
    /\ UNCHANGED nextSerial
    /\ UNCHANGED_MB

\* Array.from(this.worktrees.values()): the ids in insertion order, which is
\* the order of their stamps
PoolOrder(pool) ==
    LET Stamped(k) == \E wid \in DOMAIN pool : wid[2] = k
        stamps == SelectSeq([k \in 1..MaxSerial |-> k], Stamped)
    IN  [j \in DOMAIN stamps |-> CHOOSE wid \in DOMAIN pool : wid[2] = stamps[j]]
\* .filter(w => w.status === 'active' && w.fitness < fitnessThreshold)
LowFitness(pool, thr) ==
    LET Low(wid) == pool[wid].status = "active" /\ BelowThreshold(pool[wid].fitness, thr)
    IN  SelectSeq(PoolOrder(pool), Low)
\* the rest of the pool
NotLowFitness(pool, thr) ==
    LET Kept(wid) == ~(pool[wid].status = "active" /\ BelowThreshold(pool[wid].fitness, thr))
    IN  SelectSeq(PoolOrder(pool), Kept)

\* the loop of pruneLowFitnessWorktrees from its entry i on: cleanupWorktree
\* throws for an id that is no longer in the pool, which the loop catches;
\* the first id it finds is passed to `git worktree remove`; after the last
\* one the call returns lowFitnessWorktrees.length
RECURSIVE PruneFrom(_, _, _)
PruneFrom(call, i, pool) ==
    IF i > Len(call.muts)
    THEN [Returned("pruneLowFitnessWorktrees", "ok") EXCEPT
             !.total = Len(call.muts), !.muts = call.muts, !.thr = call.thr,
             !.before = call.before]
    ELSE IF call.muts[i] \notin DOMAIN pool
    THEN PruneFrom(call, i + 1, pool)
    ELSE [call EXCEPT !.pc = "pw_remove", !.idx = i, !.wid = call.muts[i]]

\* pruneLowFitnessWorktrees(fitnessThreshold): the filter and the first
\* cleanupWorktree call up to its await
PruneWorktreesStart(c) ==
    /\ Free(c)
    /\ \E thr \in Thresholds :
          calls' = [calls EXCEPT ![c] =
                      PruneFrom([Idle EXCEPT !.op = "pruneLowFitnessWorktrees",
                                             !.res = "pending",
                                             !.thr = thr,
                                             !.muts = LowFitness(worktrees, thr),
                                             !.before = NotLowFitness(worktrees, thr)],
                                1, worktrees)]
    /\ UNCHANGED repo
    /\ UNCHANGED_WT
    /\ UNCHANGED_MB

\* await this.git.raw(['worktree', 'remove', ...]) inside the loop: its
\* failure is caught by the loop, which goes on with the next worktree
PruneWorktreesRemove(c) ==
    /\ calls[c].pc = "pw_remove"
    /\ \E g \in Outcomes(repo, GitWorktreeRemove(repo, calls[c].wid)) :
          /\ repo' = g.repo
          /\ calls' = [calls EXCEPT ![c] =
                         IF g.ok THEN [calls[c] EXCEPT !.pc = "pw_branch"]
                         ELSE PruneFrom(calls[c], calls[c].idx + 1, worktrees)]
    /\ UNCHANGED_WT
    /\ UNCHANGED_MB

\* await this.git.deleteLocalBranch(...) in its own try/catch, the removal
\* from the pool, and the loop's next round
PruneWorktreesBranch(c) ==
    /\ calls[c].pc = "pw_branch"
    /\ \E g \in Outcomes(repo, GitDeleteLocalBranch(repo, BranchOfWorktree(calls[c].wid))) :
          repo' = g.repo
    /\ worktrees' = DeleteFromPool(worktrees, calls[c].wid)
    /\ cleaned' = cleaned \cup {calls[c].wid}
    /\ calls' = [calls EXCEPT ![c] =
                   PruneFrom(calls[c], calls[c].idx + 1,
                             DeleteFromPool(worktrees, calls[c].wid))]
    /\ UNCHANGED nextSerial
    /\ UNCHANGED_MB

(* --------------------------- MutationBrancher -------------------------- *)
\* mutation types callers pass
MutationTypes == {"breaking"}
\* godName arguments: "null" leaves the choice to selectGodForMutation
MutationGods == {"null", "Brahma", "Shiva"}

\* mutationGodMappings[mutationType] || 'odin'
selectGodForMutation(type) ==
    CASE type = "refactor" -> "modi"
      [] type = "optimize" -> "freyr"
      [] type = "debug" -> "thor"
      [] type = "security" -> "heimdall"
      [] type = "cleanup" -> "vidar"
      [] type = "ui" -> "baldr"
      [] type = "docs" -> "bragi"
      [] type = "breaking" -> "shiva"
      [] type = "removal" -> "kali"
      [] type = "deprecate" -> "yama"
      [] type = "legacy" -> "jyestha"
      [] type = "architecture" -> "odin"
      [] type = "performance" -> "thor"
      [] type = "testing" -> "thor"
      [] type = "api" -> "hermes"
      [] type = "evolution" -> "brahma"
      [] OTHER -> "odin"

\* this.activeMutations.size >= this.maxConcurrentMutations
MutationsAtCapacity(size) == size >= maxConcurrentMutations

\* createMutationBranch: capacity check, id, god selection, invokeGod
CreateMutationStart(c) ==
    /\ Free(c)
    /\ \E type \in MutationTypes, base \in BaseBranches, godName \in MutationGods :
          LET god == IF godName = "null" THEN selectGodForMutation(type) ELSE godName
          IN  IF MutationsAtCapacity(Cardinality(activeMutations))
              THEN /\ calls' = [calls EXCEPT ![c] = Returned("createMutationBranch", "capacity")]
                   /\ UNCHANGED nextMutation
              ELSE IF ~GodKnown(god)
              THEN /\ calls' = [calls EXCEPT ![c] = Returned("createMutationBranch", "error")]
                   /\ UNCHANGED nextMutation
              ELSE /\ nextMutation <= MaxMutations
                   /\ nextMutation' = nextMutation + 1
                   /\ calls' = [calls EXCEPT ![c] =
                                  [Idle EXCEPT !.op = "createMutationBranch",
                                               !.pc = "mb_checkout",
                                               !.res = "pending",
                                               !.mid = nextMutation,
                                               !.branch = base,
                                               !.god = god,
                                               !.type = type]]
    /\ UNCHANGED <<repo, mutationBranches, activeMutations, branchHistory, balance>>
    /\ UNCHANGED_WT

\* await this.git.checkout(baseBranch)
CreateMutationCheckout(c) ==
    /\ calls[c].pc = "mb_checkout"
    /\ \E g \in Outcomes(repo, GitCheckout(repo, calls[c].branch)) :
          /\ repo' = g.repo
          /\ IF g.ok THEN Goto(c, "mb_branch") ELSE Finish(c, "error")
    /\ UNCHANGED_MB
    /\ UNCHANGED_WT

\* the mutation record; id and branchName follow from the map key
NewMutation(call) ==
    [type |-> call.type,
     baseBranch |-> call.branch,
     god |-> call.god,
     realm |-> Realm(call.god),
     status |-> "active",
     commits |-> << >>,
     changes |-> 0,
     fitness |-> 0,
     realmBalance |-> balance]

\* await this.git.checkoutLocalBranch(branchName); then the mutation is
\* registered and added to the active set
CreateMutationBranch(c) ==
    /\ calls[c].pc = "mb_branch"
    /\ \E g \in Outcomes(repo, GitCheckoutLocalBranch(repo, MutationBranch(calls[c].mid))) :
          /\ repo' = g.repo
          /\ IF g.ok
             THEN /\ mutationBranches' = Put(mutationBranches, calls[c].mid,
                                             NewMutation(calls[c]))
                  /\ activeMutations' = activeMutations \cup {calls[c].mid}
                  /\ Finish(c, "ok")
             ELSE /\ UNCHANGED <<mutationBranches, activeMutations>>
                  /\ Finish(c, "error")
    /\ UNCHANGED <<branchHistory, nextMutation, balance>>
    /\ UNCHANGED_WT

MutationOf(c) == mutationBranches[calls[c].mid]
SetStatus(mid, st) == [mutationBranches EXCEPT ![mid].status = st]

NotActiveMutant(status) == FALSE
\* mutation.status !== 'active'
NotActive(status) == status # "active"

\* applyMutationChanges: lookup and status check
ApplyChangesStart(c) ==
    /\ Free(c)
    /\ \E mid \in DOMAIN mutationBranches :
          IF NotActive(mutationBranches[mid].status)
          THEN calls' = [calls EXCEPT ![c] =
                           [Returned("applyMutationChanges", "invalid")
                               EXCEPT !.mid = mid]]
          ELSE /\ MayCommit
               /\ calls' = [calls EXCEPT ![c] =
                              [Idle EXCEPT !.op = "applyMutationChanges",
                                           !.pc = "mc_checkout",
                                           !.res = "pending", !.mid = mid]]
    /\ UNCHANGED repo
    /\ UNCHANGED_MB
    /\ UNCHANGED_WT

\* await this.git.checkout(mutation.branchName)
ApplyChangesCheckout(c) ==
    /\ calls[c].pc = "mc_checkout"
    /\ \E g \in Outcomes(repo, GitCheckout(repo, MutationBranch(calls[c].mid))) :
          /\ repo' = g.repo
          /\ IF g.ok
             THEN /\ Goto(c, "mc_commit")
                  /\ UNCHANGED mutationBranches
             ELSE /\ mutationBranches' = SetStatus(calls[c].mid, "error")
                  /\ Finish(c, "error")
    /\ UNCHANGED <<activeMutations, branchHistory, nextMutation, balance>>
    /\ UNCHANGED_WT

\* godFitnessMap[mutation.god] || 10
GodFitness(god) ==
    CASE god = "odin" -> 25
      [] god = "thor" -> 20
      [] god = "freyr" -> 18
      [] god = "baldr" -> 15
      [] god = "heimdall" -> 22
      [] god = "bragi" -> 12
      [] god = "modi" -> 20
      [] god = "vidar" -> 16
      [] god = "shiva" -> 30
      [] god = "kali" -> 25
      [] god = "durga" -> 20
      [] god = "yama" -> 18
      [] god = "mahakala" -> 22
      [] god = "bhairava" -> 24
      [] god = "jyestha" -> 16
      [] god = "mara" -> 14
      [] OTHER -> 10

\* typeBonuses[mutation.type] || 1.0, in tenths
TypeBonus(type) ==
    CASE type = "breaking" -> 15
      [] type = "security" -> 14
      [] type = "performance" -> 13
      [] type = "refactor" -> 12
      [] type = "cleanup" -> 11
      [] type = "docs" -> 10
      [] type = "ui" -> 11
      [] OTHER -> 10

\* Math.max(0.7, 1 - ageInHours / 48), in percent: the clock is an input
MutationTimeFactors == {80, 100}
\* changes.length of the arrays callers pass
ChangeCounts == {5}

\* calculateMutationFitness: (commits*15 + changes*5 + god bonus) * type
\* bonus * (1 + |realmBalance|/200) * time factor, clamped to 0..100.  The
\* three factors have denominators 10, 200 and 100: their product is
\* FitnessScale, so the result times FitnessScale is an integer.
calculateMutationFitness(m, tf) ==
    Max(0, Min(100 * FitnessScale,
               (Len(m.commits) * 15 + m.changes * 5 + GodFitness(m.god))
                 * TypeBonus(m.type) * (200 + Abs(m.realmBalance)) * tf))

\* await this.git.add('.'); await this.git.commit(...); then commits.push,
\* changes.push and the fitness
ApplyChangesCommit(c) ==
    /\ calls[c].pc = "mc_commit"
    /\ \E g \in Outcomes(repo, GitCommit(repo)),
          n \in ChangeCounts, tf \in MutationTimeFactors :
          /\ repo' = g.repo
          /\ IF g.ok
             THEN LET m == [MutationOf(c) EXCEPT !.commits = Append(@, NextCommit(repo)),
                                                 !.changes = @ + n]
                  IN  /\ mutationBranches' =
                            [mutationBranches EXCEPT ![calls[c].mid] =
                                [m EXCEPT !.fitness = calculateMutationFitness(m, tf)]]
                      /\ Finish(c, "ok")
             ELSE /\ mutationBranches' = SetStatus(calls[c].mid, "error")
                  /\ Finish(c, "error")
    /\ UNCHANGED <<activeMutations, branchHistory, nextMutation, balance>>
    /\ UNCHANGED_WT

\* calls that can still append to branchHistory
Recording == {c \in Calls : calls[c].pc \in {"mm_checkout", "mm_merge",
                                               "ab_checkout", "ab_delete"}}
MayRecord == Len(branchHistory) + Cardinality(Recording) < MaxHistory

\* mergeMutation: lookup and fitness gate
MergeMutationStart(c) ==
    /\ Free(c)
    /\ MayRecord
    /\ \E mid \in DOMAIN mutationBranches, target \in BaseBranches, thr \in Thresholds :
          IF BelowThreshold(mutationBranches[mid].fitness, thr)
          THEN calls' = [calls EXCEPT ![c] =
                           [Returned("mergeMutation", "false")
                               EXCEPT !.mid = mid, !.thr = thr]]
          ELSE calls' = [calls EXCEPT ![c] =
                           [Idle EXCEPT !.op = "mergeMutation", !.pc = "mm_checkout",
                                        !.res = "pending", !.mid = mid,
                                        !.branch = target, !.thr = thr]]
    /\ UNCHANGED repo
    /\ UNCHANGED_MB
    /\ UNCHANGED_WT

\* await this.git.checkout(targetBranch)
MergeMutationCheckout(c) ==
    /\ calls[c].pc = "mm_checkout"
    /\ \E g \in Outcomes(repo, GitCheckout(repo, calls[c].branch)) :
          /\ repo' = g.repo
          /\ IF g.ok
             THEN /\ Goto(c, "mm_merge")
                  /\ UNCHANGED mutationBranches
             ELSE /\ mutationBranches' = SetStatus(calls[c].mid, "merge_failed")
                  /\ Finish(c, "error")
    /\ UNCHANGED <<activeMutations, branchHistory, nextMutation, balance>>
    /\ UNCHANGED_WT

balanceForcesMutant(b, lightIntensity, shadowIntensity) ==
    Max(-100, Min(100, b + lightIntensity))
\* TreeCoordinator.balanceForces
balanceForces(b, lightIntensity, shadowIntensity) ==
    Max(-100, Min(100, b + (lightIntensity - shadowIntensity)))

\* await this.git.mergeFromTo(mutation.branchName, targetBranch); then the
\* bookkeeping of a successful merge
MergeMutationMerge(c) ==
    /\ calls[c].pc = "mm_merge"
    /\ \E conflict \in BOOLEAN :
       \E g \in Outcomes(repo, GitMergeFromTo(repo, MutationBranch(calls[c].mid),
                                              calls[c].branch, conflict)) :
          /\ repo' = g.repo
          /\ IF g.ok
             THEN /\ mutationBranches' = SetStatus(calls[c].mid, "merged")
                  /\ activeMutations' = activeMutations \ {calls[c].mid}
                  /\ branchHistory' = Append(branchHistory, calls[c].mid)
                  /\ balance' = balanceForces(balance,
                                    IF MutationOf(c).realm = "light" THEN 10 ELSE 0,
                                    IF MutationOf(c).realm = "shadow" THEN 10 ELSE 0)
                  /\ Finish(c, "true")
             ELSE /\ mutationBranches' = SetStatus(calls[c].mid, "merge_failed")
                  /\ UNCHANGED <<activeMutations, branchHistory, balance>>
                  /\ Finish(c, "error")
    /\ UNCHANGED nextMutation
    /\ UNCHANGED_WT

\* abandonMutation: lookup
AbandonMutationStart(c) ==
    /\ Free(c)
    /\ MayRecord
    /\ \E mid \in DOMAIN mutationBranches :
          calls' = [calls EXCEPT ![c] =
                      [Idle EXCEPT !.op = "abandonMutation", !.pc = "ab_checkout",
                                   !.res = "pending", !.mid = mid]]
    /\ UNCHANGED repo
    /\ UNCHANGED_MB
    /\ UNCHANGED_WT

\* await this.git.checkout(mutation.baseBranch)
AbandonMutationCheckout(c) ==
    /\ calls[c].pc = "ab_checkout"
    /\ \E g \in Outcomes(repo, GitCheckout(repo, MutationOf(c).baseBranch)) :
          /\ repo' = g.repo
          /\ IF g.ok THEN Goto(c, "ab_delete") ELSE Finish(c, "error")
    /\ UNCHANGED_MB
    /\ UNCHANGED_WT

\* await this.git.deleteLocalBranch(mutation.branchName, true); then the
\* bookkeeping of an abandoned mutation
AbandonMutationDelete(c) ==
    /\ calls[c].pc = "ab_delete"
    /\ \E g \in Outcomes(repo, GitDeleteLocalBranch(repo, MutationBranch(calls[c].mid))) :
          /\ repo' = g.repo
          /\ IF g.ok
             THEN /\ mutationBranches' = SetStatus(calls[c].mid, "abandoned")
                  /\ activeMutations' = activeMutations \ {calls[c].mid}
                  /\ branchHistory' = Append(branchHistory, calls[c].mid)
                  /\ Finish(c, "ok")
             ELSE /\ UNCHANGED <<mutationBranches, activeMutations, branchHistory>>
                  /\ Finish(c, "error")
    /\ UNCHANGED <<nextMutation, balance>>
    /\ UNCHANGED_WT

(* ---------------------------- EvolutionMerger -------------------------- *)
\* git status
GitStatus(r) == Done(r)

\* git merge --no-commit --no-ff <b>: when there is something to merge the
\* command stops before the commit with MERGE_HEAD set, with or without
\* unmerged paths.  It exits with 1 on conflicts but writes nothing to
\* stderr, so simple-git's raw() resolves.
GitMergeNoCommit(r, b, conflict) ==
    IF ~Exists(r, b) \/ r.merging
    THEN Failed(r)
    ELSE IF r.head[b] \subseteq r.head[r.current]
    THEN Done(r)
    ELSE Done([r EXCEPT !.merging = TRUE, !.conflicted = conflict])

\* git merge --abort: fails when there is no merge to abort
GitMergeAbort(r) ==
    IF r.merging
    THEN Done([r EXCEPT !.merging = FALSE, !.conflicted = FALSE])
    ELSE Failed(r)

Branches(r) == <<r.current, r.head>>

(* evaluation of mutations for a merge *)
\* this.fitnessThresholds.individual
IndividualThreshold == 60
\* const balanceThreshold = 80
BalanceThreshold == 80

\* mutation.fitness < this.fitnessThresholds.individual
BelowIndividual(fitness) == fitness < IndividualThreshold * FitnessScale

\* assessTreeBalanceImpact: the balance with the mutation's realm applied
ProjectedBalance(b, realm) ==
    IF realm = "light" THEN b + 10
    ELSE IF realm = "shadow" THEN b - 10
    ELSE b

CompatibleMutant(projected) == TRUE
\* Math.abs(projectedBalance) <= balanceThreshold
Compatible(projected) == Abs(projected) <= BalanceThreshold

\* the assessment record of assessMutationMergeability; conflicts is whether
\* the list of conflicts is non-empty
NoAssessment ==
    [eligible |-> FALSE, conflicts |-> FALSE, needsImprovement |-> FALSE,
     fitness |-> 0, projected |-> 0]

\* evaluateMutationsForMerge: the list an assessed mutation is pushed to
Classified(rec, mid, a) ==
    LET e == [mid |-> mid, assessment |-> a]
    IN  [rec EXCEPT
           !.idx = @ + 1,
           !.ev = IF a.eligible THEN [@ EXCEPT !.eligible = Append(@, e)]
                  ELSE IF a.conflicts THEN [@ EXCEPT !.conflicts = Append(@, e)]
                  ELSE IF a.needsImprovement THEN [@ EXCEPT !.pending = Append(@, e)]
                  ELSE [@ EXCEPT !.rejected = Append(@, e)]]

\* eligible.sort((a, b) => b.mutation.fitness - a.mutation.fitness): a stable
\* sort, the fitness read from the mutation
SortByFitnessMutant(s) == s
RECURSIVE InsertByFitness(_, _)
InsertByFitness(s, e) ==
    IF s = << >> THEN <<e>>
    ELSE IF mutationBranches[Head(s).mid].fitness >= mutationBranches[e.mid].fitness
    THEN <<Head(s)>> \o InsertByFitness(Tail(s), e)
    ELSE <<e>> \o s
RECURSIVE SortByFitness(_)
SortByFitness(s) ==
    IF s = << >> THEN << >>
    ELSE InsertByFitness(SortByFitness(SubSeq(s, 1, Len(s) - 1)), s[Len(s)])

\* treeBalancedMerge: eligible.filter(e => e.mutation.divineGuidance?.realm === ...)
OfRealm(s, realm) ==
    SelectSeq(s, LAMBDA e : mutationBranches[e.mid].realm = realm)
lightMutations(rec) == OfRealm(rec.ev.eligible, "light")
shadowMutations(rec) == OfRealm(rec.ev.eligible, "shadow")
maxPairs(rec) == Min(Len(lightMutations(rec)), Len(shadowMutations(rec)))

\* the strategy returns and executeIntelligentMerge returns its record with
\* status completed; the record keeps the evaluation and the results
Completed(rec) ==
    [rec EXCEPT !.pc = "done", !.res = "completed", !.mid = 0, !.idx = 0,
                !.before = << >>, !.trial = "none", !.found = FALSE]

\* the loop of a strategy at index rec.idx: the await it stops at next
StrategyLoop(rec) ==
    CASE rec.strategy = "tree_balanced" ->
            IF rec.idx <= maxPairs(rec) THEN [rec EXCEPT !.pc = "x_light"]
            ELSE Completed(rec)
      [] rec.strategy = "conflict_resolved" ->
            IF rec.idx <= Len(rec.ev.eligible) THEN [rec EXCEPT !.pc = "x_merge"]
            ELSE IF rec.idx <= Len(rec.ev.eligible) + Len(rec.ev.conflicts)
            THEN [rec EXCEPT !.pc = "x_resolution"]
            ELSE Completed(rec)
      [] OTHER ->
            IF rec.idx <= Len(rec.ev.eligible) THEN [rec EXCEPT !.pc = "x_merge"]
            ELSE Completed(rec)

Strategies == {"fitness_based", "god_coordinated", "tree_balanced", "conflict_resolved"}

\* strategyImpl.strategy(evaluation, targetBranch, mergeRecord) up to its
\* first await
StrategyEntry(rec) ==
    LET r == [rec EXCEPT !.idx = 1, !.mid = 0, !.before = << >>,
                         !.trial = "none", !.found = FALSE]
    IN  CASE rec.strategy = "god_coordinated" -> [r EXCEPT !.pc = "x_workflow"]
          [] rec.strategy = "fitness_based" ->
                [r EXCEPT !.pc = "x_checkout",
                          !.ev.eligible = SortByFitness(@)]
          [] OTHER -> [r EXCEPT !.pc = "x_checkout"]

\* evaluateMutationsForMerge returns the evaluation; in
\* executeIntelligentMerge the conflicts are resolved first when there are
\* any, then the strategy runs
AfterEvaluation(rec) ==
    IF rec.op = "evaluateMutationsForMerge"
    THEN [rec EXCEPT !.pc = "done", !.res = "evaluated", !.mid = 0, !.idx = 0,
                     !.before = << >>, !.trial = "none", !.found = FALSE]
    ELSE IF Len(rec.ev.conflicts) > 0
    THEN [rec EXCEPT !.pc = "x_resolve", !.idx = 1, !.mid = 0, !.before = << >>,
                     !.trial = "none", !.found = FALSE]
    ELSE StrategyEntry(rec)

\* the loop of evaluateMutationsForMerge from index rec.idx up to the next
\* await: a mutation below the individual threshold needs improvement, any
\* other is probed for conflicts
RECURSIVE Evaluate(_)
Evaluate(rec) ==
    IF rec.idx > Len(rec.muts) THEN AfterEvaluation(rec)
    ELSE LET mid == rec.muts[rec.idx]
             fitness == mutationBranches[mid].fitness
         IN  IF BelowIndividual(fitness)
             THEN Evaluate(Classified(rec, mid,
                      [NoAssessment EXCEPT !.needsImprovement = TRUE,
                                           !.fitness = fitness]))
             ELSE [rec EXCEPT !.pc = "p_current", !.mid = mid,
                              !.before = Branches(repo),
                              !.trial = "none", !.found = FALSE]

\* assessMutationMergeability after checkMergeConflicts has returned
Assessed(rec, found) ==
    LET m == mutationBranches[rec.mid]
        projected == ProjectedBalance(balance, m.realm)
        a == IF found
             THEN [NoAssessment EXCEPT !.conflicts = TRUE, !.fitness = m.fitness]
             ELSE IF Compatible(projected)
             THEN [NoAssessment EXCEPT !.eligible = TRUE, !.fitness = m.fitness,
                                       !.projected = projected]
             ELSE [NoAssessment EXCEPT !.needsImprovement = TRUE,
                                       !.fitness = m.fitness,
                                       !.projected = projected]
    IN  Evaluate(Classified(rec, rec.mid, a))

\* checkMergeConflicts returns to its caller
ProbeReturn(c, found) ==
    IF calls[c].op = "checkMergeConflicts"
    THEN Finish(c, IF found THEN "conflicts" ELSE "empty")
    ELSE calls' = [calls EXCEPT ![c] = Assessed(calls[c], found)]

\* checkMergeConflicts(mutation): no synchronous code before the first await
ProbeStart(c) ==
    /\ Free(c)
    /\ \E mid \in DOMAIN mutationBranches :
          calls' = [calls EXCEPT ![c] =
                      [Idle EXCEPT !.op = "checkMergeConflicts", !.pc = "p_current",
                                   !.res = "pending", !.mid = mid,
                                   !.before = Branches(repo)]]
    /\ UNCHANGED repo
    /\ UNCHANGED_MB
    /\ UNCHANGED_WT

\* const currentBranch = await this.getCurrentBranch()
ProbeCurrent(c) ==
    /\ calls[c].pc = "p_current"
    /\ \E g \in Outcomes(repo, GitStatus(repo)) :
          /\ repo' = g.repo
          /\ Goto(c, IF g.ok THEN "p_merge" ELSE "p_catch")
    /\ UNCHANGED_MB
    /\ UNCHANGED_WT

\* await this.git.raw(['merge', '--no-commit', '--no-ff', mutation.branchName])
ProbeMerge(c) ==
    /\ calls[c].pc = "p_merge"
    /\ \E conflict \in BOOLEAN :
       \E g \in Outcomes(repo, GitMergeNoCommit(repo, MutationBranch(calls[c].mid),
                                                conflict)) :
          /\ repo' = g.repo
          /\ calls' = [calls EXCEPT
                ![c].pc = IF g.ok THEN "p_status" ELSE "p_catch",
                ![c].trial = IF ~g.ok THEN "failed"
                             ELSE IF ~g.repo.merging THEN "uptodate"
                             ELSE IF g.repo.conflicted THEN "conflict"
                             ELSE "clean"]
    /\ UNCHANGED_MB
    /\ UNCHANGED_WT

\* const status = await this.git.status(); conflicts = status.conflicted || []
ProbeStatus(c) ==
    /\ calls[c].pc = "p_status"
    /\ \E g \in Outcomes(repo, GitStatus(repo)) :
          /\ repo' = g.repo
          /\ calls' = [calls EXCEPT
                ![c].pc = IF g.ok THEN "p_abort" ELSE "p_catch",
                ![c].found = g.ok /\ repo.conflicted]
    /\ UNCHANGED_MB
    /\ UNCHANGED_WT

\* await this.git.raw(['merge', '--abort']); return conflicts.map(...)
ProbeAbort(c) ==
    /\ calls[c].pc = "p_abort"
    /\ \E g \in Outcomes(repo, GitMergeAbort(repo)) :
          /\ repo' = g.repo
          /\ IF g.ok
             THEN ProbeReturn(c, calls[c].found)
             ELSE Goto(c, "p_retry")
    /\ UNCHANGED_MB
    /\ UNCHANGED_WT

\* the catch block: merge --abort in its own try/catch, then return []
ProbeCatch(c, pc) ==
    /\ calls[c].pc = pc
    /\ \E g \in Outcomes(repo, GitMergeAbort(repo)) :
          repo' = g.repo
    /\ ProbeReturn(c, FALSE)
    /\ UNCHANGED_MB
    /\ UNCHANGED_WT

\* the catch block entered from a failing status or merge
ProbeCleanup(c) == ProbeCatch(c, "p_catch")
\* the catch block entered from a failing merge --abort: the second abort
ProbeRetry(c) == ProbeCatch(c, "p_retry")

(* executeIntelligentMerge and the merge strategies *)
\* the mutations passed: up to MaxBatch different registered mutations
MutationLists ==
    {s \in UNION {[1..n -> DOMAIN mutationBranches] : n \in 1..MaxBatch} :
        \A i, j \in DOMAIN s : i # j => s[i] # s[j]}

\* evaluateMutationsForMerge up to its first await
EvaluateStart(c) ==
    /\ Free(c)
    /\ \E muts \in MutationLists :
          calls' = [calls EXCEPT ![c] =
                      Evaluate([Idle EXCEPT !.op = "evaluateMutationsForMerge",
                                            !.pc = "x_evaluate",
                                            !.res = "pending",
                                            !.muts = muts,
                                            !.idx = 1])]
    /\ UNCHANGED repo
    /\ UNCHANGED_MB
    /\ UNCHANGED_WT

\* targetBranch = 'main'
MergeTargets == {Main}

\* executeIntelligentMerge with an explicit strategy: the merge record, then
\* evaluateMutationsForMerge up to its first await
ExecuteMergeStart(c) ==
    /\ Free(c)
    /\ \E muts \in MutationLists, strategy \in Strategies, target \in MergeTargets :
          calls' = [calls EXCEPT ![c] =
                      Evaluate([Idle EXCEPT !.op = "executeIntelligentMerge",
                                            !.pc = "x_evaluate",
                                            !.res = "pending",
                                            !.muts = muts,
                                            !.idx = 1,
                                            !.strategy = strategy,
                                            !.branch = target])]
    /\ UNCHANGED repo
    /\ UNCHANGED_MB
    /\ UNCHANGED_WT

\* resolveConflictsWithDivineGuidance: one resolveConflictWithDivineGuidance
\* per conflicted mutation; it catches what invokeGod throws, and the
\* resolutions only go into the merge record
ResolveConflicts(c) ==
    /\ calls[c].pc = "x_resolve"
    /\ LET next == [calls[c] EXCEPT !.idx = @ + 1]
       IN  calls' = [calls EXCEPT ![c] =
                        IF next.idx <= Len(next.ev.conflicts) THEN next
                        ELSE StrategyEntry(next)]
    /\ UNCHANGED repo
    /\ UNCHANGED_MB
    /\ UNCHANGED_WT

\* LangGraphCoordinator.selectAgentsForTask: the light leader of a task that
\* names no speciality
WorkflowLeader == "odin"

\* godCoordinatedMerge: createWorkflow and executeWorkflow, whose light phase
\* invokes its first agent through AshvatthaTree.invokeGod; the phases that
\* follow move the balance by 20 each way
GodWorkflow(c) ==
    /\ calls[c].pc = "x_workflow"
    /\ IF GodKnown(WorkflowLeader)
       THEN /\ balance' = balanceForces(balanceForces(balance, 20, 0), 0, 20)
            /\ Goto(c, "x_checkout")
       ELSE /\ UNCHANGED balance
            /\ Finish(c, "failed")
    /\ UNCHANGED <<repo, mutationBranches, activeMutations, branchHistory,
                   nextMutation>>
    /\ UNCHANGED_WT

\* await this.git.checkout(targetBranch), outside every try block
StrategyCheckout(c) ==
    /\ calls[c].pc = "x_checkout"
    /\ \E g \in Outcomes(repo, GitCheckout(repo, calls[c].branch)) :
          /\ repo' = g.repo
          /\ IF g.ok
             THEN calls' = [calls EXCEPT ![c] = StrategyLoop(calls[c])]
             ELSE Finish(c, "failed")
    /\ UNCHANGED_MB
    /\ UNCHANGED_WT

\* merged++; totalFitness += mutation.fitness
Counted(rec, mid, success) ==
    IF success
    THEN [rec EXCEPT !.merged = @ + 1,
                     !.total = @ + mutationBranches[mid].fitness,
                     !.counted = Append(@, mid)]
    ELSE rec
\* try { await this.git.mergeFromTo(...); merged++; ... } catch { log }
Merged(rec, mid, ok) ==
    [Counted(rec, mid, ok) EXCEPT !.tried = Append(@, [mid |-> mid, ok |-> ok])]

\* the keys of lightBranches and shadowRoots, which TreeCoordinator indexes
\* by the god names it is passed
YggdrasilKeys == {"anima", "logos", "silva"}
AshvatthaKeys == {"anima", "logos", "silva"}
\* invokeDualGods: throws unless both lookups find an entry
DualGodsFound(lightGod, shadowGod) ==
    lightGod \in YggdrasilKeys /\ shadowGod \in AshvatthaKeys

\* one candidate of fitnessBasedMerge, godCoordinatedMerge or the first loop
\* of conflictResolvedMerge; godCoordinatedMerge asks for the approval first,
\* outside its try block
StrategyMerge(c) ==
    /\ calls[c].pc = "x_merge"
    /\ LET rec == calls[c]
           mid == rec.ev.eligible[rec.idx].mid
           next(r) == StrategyLoop([r EXCEPT !.idx = @ + 1])
       IN  IF rec.strategy = "god_coordinated"
                /\ ~DualGodsFound(mutationBranches[mid].god, "shiva")
           THEN /\ Finish(c, "failed")
                /\ UNCHANGED repo
           ELSE IF rec.strategy = "god_coordinated"
                     /\ ~(balanceForces(balance, 25, 25) > -50)
           THEN /\ calls' = [calls EXCEPT ![c] = next(rec)]
                /\ UNCHANGED repo
           ELSE \E conflict \in BOOLEAN :
                \E g \in Outcomes(repo, GitMergeFromTo(repo, MutationBranch(mid),
                                                       rec.branch, conflict)) :
                   /\ repo' = g.repo
                   /\ calls' = [calls EXCEPT ![c] = next(Merged(rec, mid, g.ok))]
    /\ UNCHANGED_MB
    /\ UNCHANGED_WT

\* the second loop of conflictResolvedMerge: the resolution of one conflicted
\* mutation succeeds when invokeGod does
StrategyResolution(c) ==
    /\ calls[c].pc = "x_resolution"
    /\ LET rec == calls[c]
           mid == rec.ev.conflicts[rec.idx - Len(rec.ev.eligible)].mid
           success == GodKnown(mutationBranches[mid].god)
       IN  calls' = [calls EXCEPT ![c] =
                        StrategyLoop([Counted(rec, mid, success)
                                         EXCEPT !.idx = @ + 1])]
    /\ UNCHANGED repo
    /\ UNCHANGED_MB
    /\ UNCHANGED_WT

\* treeBalancedMerge: the light mutation of pair i
TreeLight(c) ==
    /\ calls[c].pc = "x_light"
    /\ LET rec == calls[c]
           mid == lightMutations(rec)[rec.idx].mid
       IN  \E conflict \in BOOLEAN :
           \E g \in Outcomes(repo, GitMergeFromTo(repo, MutationBranch(mid),
                                                  rec.branch, conflict)) :
              /\ repo' = g.repo
              /\ calls' = [calls EXCEPT ![c] =
                              [Merged(rec, mid, g.ok) EXCEPT !.pc = "x_shadow"]]
    /\ UNCHANGED_MB
    /\ UNCHANGED_WT

\* treeBalancedMerge: the shadow mutation of pair i, then
\* treeCoordinator.balanceForces(10, 10)
TreeShadow(c) ==
    /\ calls[c].pc = "x_shadow"
    /\ LET rec == calls[c]
           mid == shadowMutations(rec)[rec.idx].mid
       IN  \E conflict \in BOOLEAN :
           \E g \in Outcomes(repo, GitMergeFromTo(repo, MutationBranch(mid),
                                                  rec.branch, conflict)) :
              /\ repo' = g.repo
              /\ calls' = [calls EXCEPT ![c] =
                              StrategyLoop([Merged(rec, mid, g.ok)
                                               EXCEPT !.idx = @ + 1])]
    /\ balance' = balanceForces(balance, 10, 10)
    /\ UNCHANGED <<mutationBranches, activeMutations, branchHistory, nextMutation>>
    /\ UNCHANGED_WT

\* intensities other components pass to TreeCoordinator.balanceForces
Intensities == {0, 100}
\* TreeCoordinator.balanceForces called by another component, also while a
\* call of the managers or the merger is suspended
BalanceForces ==
    /\ \E lightIntensity, shadowIntensity \in Intensities :
          balance' = balanceForces(balance, lightIntensity, shadowIntensity)
    /\ UNCHANGED <<repo, mutationBranches, activeMutations, branchHistory,
                   nextMutation, calls>>
    /\ UNCHANGED_WT

(* --------------------------- EvolutionBirther -------------------------- *)
\* lineage ids (generateLineageId: species, time stamp and random bytes)
LineageIds == 1..(LineageBound + 1)
\* ids not in the map and not held by a birth in flight
FreshLineageIds ==
    LineageIds \ (lineages \cup {calls[c].lid : c \in Calls})

\* the godPair argument: none, a pair of god names, a pair of realm keys
GodPairs ==
    {[light |-> "null", shadow |-> "null"],
     [light |-> "Brahma", shadow |-> "Shiva"],
     [light |-> "anima", shadow |-> "logos"]}
Species == {"hybrid", "security"}

selectOptimalGodPair(species) ==
    CASE species = "performance" -> [light |-> "thor", shadow |-> "mahakala"]
      [] species = "security" -> [light |-> "heimdall", shadow |-> "durga"]
      [] species = "architecture" -> [light |-> "odin", shadow |-> "avidya"]
      [] species = "optimization" -> [light |-> "freyr", shadow |-> "kali"]
      [] species = "transformation" -> [light |-> "modi", shadow |-> "shiva"]
      [] species = "beauty" -> [light |-> "baldr", shadow |-> "nirrti"]
      [] species = "testing" -> [light |-> "thor", shadow |-> "mara"]
      [] species = "documentation" -> [light |-> "bragi", shadow |-> "yama"]
      [] species = "experimental" -> [light |-> "vili", shadow |-> "tamas"]
      [] OTHER -> [light |-> "odin", shadow |-> "shiva"]

\* this.lineages.size >= this.maxActiveLineages
LineagesAtCapacity(size) == size >= maxActiveLineages

\* birthNewLineage: capacity check, id, god pair, birth record, then
\* invokeDualGods, which looks both gods up before it awaits its timer
BirthStart(c) ==
    /\ Free(c)
    /\ \E pair \in GodPairs, species \in Species :
          LET godPair == IF pair.light = "null" THEN selectOptimalGodPair(species)
                         ELSE pair
          IN  IF LineagesAtCapacity(Cardinality(lineages))
              THEN calls' = [calls EXCEPT ![c] = Returned("birthNewLineage", "capacity")]
              ELSE IF ~DualGodsFound(godPair.light, godPair.shadow)
              THEN calls' = [calls EXCEPT ![c] = Returned("birthNewLineage", "error")]
              ELSE \E lid \in FreshLineageIds :
                      calls' = [calls EXCEPT ![c] =
                                  [Idle EXCEPT !.op = "birthNewLineage",
                                               !.pc = "bl_blessing",
                                               !.res = "pending",
                                               !.lid = lid]]
    /\ UNCHANGED repo
    /\ UNCHANGED_MB
    /\ UNCHANGED_WT

\* the blessing returns (balanceForces(25, 25)), the record becomes active,
\* and createGeneration(lineageId, 0, 'genesis') looks the lineage up in
\* this.lineages and throws when it is not there
BirthBlessing(c) ==
    /\ calls[c].pc = "bl_blessing"
    /\ balance' = balanceForces(balance, 25, 25)
    /\ IF calls[c].lid \in lineages
       THEN Goto(c, "bl_generation")
       ELSE Finish(c, "error")
    /\ UNCHANGED <<repo, mutationBranches, activeMutations, branchHistory,
                   nextMutation, lineages>>
    /\ UNCHANGED <<worktrees, cleaned, nextSerial, optimizer, engine>>

\* createGeneration returns; this.lineages.set(lineageId, birthRecord)
BirthRegister(c) ==
    /\ calls[c].pc = "bl_generation"
    /\ lineages' = lineages \cup {calls[c].lid}
    /\ Finish(c, "ok")
    /\ UNCHANGED <<repo, mutationBranches, activeMutations, branchHistory,
                   nextMutation, balance>>
    /\ UNCHANGED <<worktrees, cleaned, nextSerial, optimizer, engine>>

\* terminateLineage: lookup
TerminateStart(c) ==
    /\ Free(c)
    /\ \E lid \in LineageIds :
          IF lid \notin lineages
          THEN calls' = [calls EXCEPT ![c] = Returned("terminateLineage", "notfound")]
          ELSE calls' = [calls EXCEPT ![c] =
                           [Idle EXCEPT !.op = "terminateLineage",
                                        !.pc = "tl_cleanup",
                                        !.res = "pending", !.lid = lid]]
    /\ UNCHANGED repo
    /\ UNCHANGED_MB
    /\ UNCHANGED_WT

\* the worktrees of the lineage are cleaned up, each in its own try block;
\* then this.lineages.delete(lineageId)
TerminateDelete(c) ==
    /\ calls[c].pc = "tl_cleanup"
    /\ lineages' = lineages \ {calls[c].lid}
    /\ Finish(c, "ok")
    /\ UNCHANGED <<repo, mutationBranches, activeMutations, branchHistory,
                   nextMutation, balance>>
    /\ UNCHANGED <<worktrees, cleaned, nextSerial, optimizer, engine>>

(* ------------------------- MultiObjectiveOptimizer ---------------------- *)
\* JavaScript numbers: the finite ones are integers here; NaN and the two
\* infinities are three integers outside the range of every finite value
PosInf == 1000000
NegInf == -1000000
NaN == 2000000
Finite(x) == x \notin {PosInf, NegInf, NaN}
\* a < b and a > b: false when either side is NaN
Lt(a, b) == a # NaN /\ b # NaN /\ a < b
Gt(a, b) == Lt(b, a)
\* a - b
Sub(a, b) ==
    IF a = NaN \/ b = NaN THEN NaN
    ELSE IF a = PosInf THEN (IF b = PosInf THEN NaN ELSE PosInf)
    ELSE IF a = NegInf THEN (IF b = NegInf THEN NaN ELSE NegInf)
    ELSE IF b = PosInf THEN NegInf
    ELSE IF b = NegInf THEN PosInf
    ELSE a - b
\* a + b
Add(a, b) ==
    IF a = NaN \/ b = NaN THEN NaN
    ELSE IF a = PosInf THEN (IF b = NegInf THEN NaN ELSE PosInf)
    ELSE IF a = NegInf THEN (IF b = PosInf THEN NaN ELSE NegInf)
    ELSE IF b \in {PosInf, NegInf} THEN b
    ELSE a + b
\* Math.abs(a)
AbsNumber(a) ==
    IF a = NaN THEN NaN ELSE IF a \in {PosInf, NegInf} THEN PosInf ELSE Abs(a)

\* the ids 1..n in order
Ids(n) == [k \in 1..n |-> k]

RECURSIVE Factorial(_)
Factorial(n) == IF n <= 1 THEN 1 ELSE n * Factorial(n - 1)
\* crowding distances are kept as exact integers: value * DistanceScale; every
\* range of finite objective values divides the scale
DistanceScale == Factorial(MaxValue)
\* a / range for a >= 0 and range # 0, as a scaled distance
Div(a, range) ==
    IF a = NaN \/ range = NaN THEN NaN
    ELSE IF a = PosInf
         THEN (IF ~Finite(range) THEN NaN
               ELSE IF range > 0 THEN PosInf ELSE NegInf)
    ELSE IF ~Finite(range) THEN 0
    ELSE IF range > 0 THEN (a * DistanceScale) \div range
    ELSE -((a * DistanceScale) \div (-range))

\* the first objectives the constructor registers (defaultObjectives):
\* performance and maintainability are maximized, complexity is minimized
DefaultObjectives ==
    <<[id |-> "performance", maximize |-> TRUE, history |-> << >>],
      [id |-> "maintainability", maximize |-> TRUE, history |-> << >>],
      [id |-> "complexity", maximize |-> FALSE, history |-> << >>]>>
\* the objectives left registered when the evaluation starts: the others
\* were taken out with removeObjective, which keeps the order of the rest
ObjectiveSets ==
    LET n == Min(MaxObjectives, Len(DefaultObjectives))
        Kept(keep) == LET In(k) == k \in keep
                      IN  [k \in 1..Cardinality(keep) |->
                              DefaultObjectives[SelectSeq(Ids(n), In)[k]]]
    IN  {Kept(keep) : keep \in (SUBSET (1..n)) \ {{}}}

\* what an objective's evaluationFunction does: its promise resolves with a
\* number or rejects
Rejects == 3000000
Values == (0..MaxValue) \cup {NaN, PosInf}
EvaluatorOutcomes == Values \cup {Rejects}

\* .then(value => objectiveValues[objectiveId] = value)
\* .catch(error => objectiveValues[objectiveId] = 0)
ObjectiveValue(outcome) == IF outcome = Rejects THEN 0 ELSE outcome

\* the evaluation record of evaluateSolution
NewEvaluation(outcomes) ==
    [objectives |-> [i \in DOMAIN outcomes |-> ObjectiveValue(outcomes[i])],
     dominationCount |-> 0,
     dominatedSolutions |-> << >>,
     rank |-> 0,
     crowdingDistance |-> 0]

\* evaluateSolution(solution): every evaluator is started, the resolved
\* values go to the history of their objective, Promise.all is awaited, the
\* blessing is asked for (its failure is caught) and the solution gets its
\* evaluation.  The solution joins the caller's population; its id is its
\* position there.  used: what the evaluators in use can do.
EvaluateSolution(used) ==
    /\ Len(population) < MaxPopulation
    /\ \E outcomes \in [DOMAIN objectives -> used] :
          LET id == Len(population) + 1
          IN  /\ population' = Append(population, NewEvaluation(outcomes))
              /\ objectives' =
                    [i \in DOMAIN objectives |->
                        IF outcomes[i] = Rejects THEN objectives[i]
                        ELSE [objectives[i] EXCEPT !.history =
                                 Append(@, [solutionId |-> id, value |-> outcomes[i]])]]
    /\ UNCHANGED <<paretoFronts, newPopulation, requested, passed, threw, crowded, generations,
                   optimizeRun>>
    /\ UNCHANGED <<repo, calls>>
    /\ UNCHANGED <<worktrees, cleaned, nextSerial, lineages, engine>>
    /\ UNCHANGED <<mutationBranches, activeMutations, branchHistory, nextMutation,
                   balance>>

\* dominates(solution1, solution2): the loop over this.objectives, from
\* objective i on, with its early return
RECURSIVE DominatesFrom(_, _, _, _, _)
DominatesFrom(objs, v1, v2, i, atLeastOneObjectiveBetter) ==
    IF i > Len(objs) THEN atLeastOneObjectiveBetter
    ELSE IF objs[i].maximize
    THEN IF Lt(v1[i], v2[i]) THEN FALSE
         ELSE DominatesFrom(objs, v1, v2, i + 1,
                            atLeastOneObjectiveBetter \/ Gt(v1[i], v2[i]))
    ELSE IF Gt(v1[i], v2[i]) THEN FALSE
         ELSE DominatesFrom(objs, v1, v2, i + 1,
                            atLeastOneObjectiveBetter \/ Lt(v1[i], v2[i]))

dominatesMutant(objs, e1, e2) ==
    DominatesFrom([i \in DOMAIN objs |-> [objs[i] EXCEPT !.maximize = TRUE]],
                  e1.objectives, e2.objectives, 1, FALSE)
dominates(objs, e1, e2) ==
    DominatesFrom(objs, e1.objectives, e2.objectives, 1, FALSE)

\* the first loop of fastNonDominatedSort: the domination count and the
\* dominated solutions of every solution (ids in the order of the population)
DominationCounts(objs, pop) ==
    [i \in DOMAIN pop |->
        LET Dominated(j) == j # i /\ dominates(objs, pop[i], pop[j])
            Dominator(j) == /\ j # i
                            /\ ~dominates(objs, pop[i], pop[j])
                            /\ dominates(objs, pop[j], pop[i])
            count == Cardinality({j \in DOMAIN pop : Dominator(j)})
        IN  [pop[i] EXCEPT !.dominationCount = count,
                           !.dominatedSolutions = SelectSeq(Ids(Len(pop)), Dominated),
                           !.rank = IF count = 0 THEN 0 ELSE @]]
\* fronts[0]: the solutions whose count is 0, in the order of the population
FirstFront(pop) ==
    LET Undominated(i) == pop[i].dominationCount = 0
    IN  SelectSeq(Ids(Len(pop)), Undominated)

\* the loop over solution.evaluation.dominatedSolutions of one member of the
\* current front, from its k-th entry on; st = [pop, nextFront]
RECURSIVE PeelMember(_, _, _, _)
PeelMember(st, doms, k, rank) ==
    IF k > Len(doms) THEN st
    ELSE LET d == doms[k]
             count == st.pop[d].dominationCount - 1
             counted == [st.pop EXCEPT ![d].dominationCount = count]
         IN  IF count = 0
             THEN PeelMember([pop |-> [counted EXCEPT ![d].rank = rank],
                              nextFront |-> Append(st.nextFront, d)],
                             doms, k + 1, rank)
             ELSE PeelMember([st EXCEPT !.pop = counted], doms, k + 1, rank)

\* the loop over the members of the current front, from its m-th member on
RECURSIVE PeelFront(_, _, _, _)
PeelFront(st, front, m, rank) ==
    IF m > Len(front) THEN st
    ELSE PeelFront(PeelMember(st, st.pop[front[m]].dominatedSolutions, 1, rank),
                   front, m + 1, rank)

\* while (fronts[frontIndex].length > 0) { ... }; st = [pop, fronts]
RECURSIVE BuildFronts(_)
BuildFronts(st) ==
    LET frontIndex == Len(st.fronts) - 1
        current == st.fronts[Len(st.fronts)]
    IN  IF Len(current) = 0 THEN st
        ELSE LET peeled == PeelFront([pop |-> st.pop, nextFront |-> << >>],
                                     current, 1, frontIndex + 1)
             IN  IF Len(peeled.nextFront) > 0
                 THEN BuildFronts([pop |-> peeled.pop,
                                   fronts |-> Append(st.fronts, peeled.nextFront)])
                 ELSE [pop |-> peeled.pop, fronts |-> st.fronts]

\* fastNonDominatedSort(population): the evaluations it updates and the
\* fronts it returns and keeps in this.paretoFronts
fastNonDominatedSort(objs, pop) ==
    LET counted == DominationCounts(objs, pop)
    IN  BuildFronts([pop |-> counted, fronts |-> <<FirstFront(counted)>>])

FastNonDominatedSort ==
    /\ LET sorted == fastNonDominatedSort(objectives, population)
       IN  /\ population' = sorted.pop
           /\ paretoFronts' = sorted.fronts
    /\ UNCHANGED <<objectives, newPopulation, requested, passed, threw, crowded, generations,
                   optimizeRun>>
    /\ UNCHANGED <<repo, calls>>
    /\ UNCHANGED <<worktrees, cleaned, nextSerial, lineages, engine>>
    /\ UNCHANGED <<mutationBranches, activeMutations, branchHistory, nextMutation,
                   balance>>

\* Array.prototype.sort(comparefn) with a comparator that subtracts two
\* keys: a goes before b when the difference is negative; a NaN difference
\* counts as 0
Before(key, descending, a, b) ==
    LET c == IF descending THEN Sub(key[b], key[a]) ELSE Sub(key[a], key[b])
    IN  c # NaN /\ c < 0
Elements(front) == {front[k] : k \in DOMAIN front}
\* the comparator is consistent on the elements: a strict weak ordering
Consistent(front, key, descending) ==
    LET E == Elements(front)
        Bef(a, b) == Before(key, descending, a, b)
        Eqv(a, b) == ~Bef(a, b) /\ ~Bef(b, a)
    IN  \A a, b, c \in E :
           /\ (Bef(a, b) /\ Bef(b, c)) => Bef(a, c)
           /\ (Eqv(a, b) /\ Eqv(b, c)) => Eqv(a, c)
\* the sort is stable: e goes before the first element it is before
RECURSIVE InsertSorted(_, _, _, _)
InsertSorted(sorted, e, key, descending) ==
    IF sorted = << >> THEN <<e>>
    ELSE IF Before(key, descending, e, Head(sorted)) THEN <<e>> \o sorted
    ELSE <<Head(sorted)>> \o InsertSorted(Tail(sorted), e, key, descending)
RECURSIVE StableSort(_, _, _)
StableSort(front, key, descending) ==
    IF front = << >> THEN << >>
    ELSE InsertSorted(StableSort(SubSeq(front, 1, Len(front) - 1), key, descending),
                      front[Len(front)], key, descending)
Orders(front) ==
    {p \in [DOMAIN front -> Elements(front)] :
        \A i, j \in DOMAIN front : i # j => p[i] # p[j]}
\* what the sort can leave in the array: the stable order when the
\* comparator is consistent; otherwise the order is implementation-defined
SortOutcomes(front, key, descending) ==
    IF Consistent(front, key, descending)
    THEN {StableSort(front, key, descending)}
    ELSE Orders(front)

\* one round of the loop over the objectives in calculateCrowdingDistance,
\* for objective o and the order its sort left; st = [pop, front]
CrowdObjective(objs, o, pop, order) ==
    LET n == Len(order)
        value(k) == pop[order[k]].objectives[o]
        bounded == [pop EXCEPT ![order[1]].crowdingDistance = PosInf,
                               ![order[n]].crowdingDistance = PosInf]
        range == Sub(value(1), value(n))
        distance(k) == Div(AbsNumber(Sub(value(k + 1), value(k - 1))), range)
        Position(id) == CHOOSE k \in 1..n : order[k] = id
    IN  IF range = 0 THEN [pop |-> bounded, front |-> order]
        ELSE [pop |-> [id \in DOMAIN bounded |->
                         IF id \in {order[k] : k \in 2..(n - 1)}
                         THEN [bounded[id] EXCEPT !.crowdingDistance =
                                  Add(@, distance(Position(id)))]
                         ELSE bounded[id]],
              front |-> order]

RECURSIVE CrowdFrom(_, _, _)
CrowdFrom(objs, o, st) ==
    IF o > Len(objs) THEN {st}
    ELSE UNION {CrowdFrom(objs, o + 1, CrowdObjective(objs, o, st.pop, order)) :
                  order \in SortOutcomes(st.front,
                                         [id \in DOMAIN st.pop |-> st.pop[id].objectives[o]],
                                         objs[o].maximize)}

\* frontSize <= 2
SmallFront(frontSize) == frontSize <= 2

\* calculateCrowdingDistance(front): the evaluations and the order of the
\* front it can leave
calculateCrowdingDistance(objs, pop, front) ==
    LET members == Elements(front)
        reset == [id \in DOMAIN pop |->
                    IF id \in members THEN [pop[id] EXCEPT !.crowdingDistance = 0]
                    ELSE pop[id]]
    IN  IF SmallFront(Len(front))
        THEN {[pop |-> [id \in DOMAIN pop |->
                          IF id \in members
                          THEN [pop[id] EXCEPT !.crowdingDistance = PosInf]
                          ELSE pop[id]],
               front |-> front]}
        ELSE CrowdFrom(objs, 1, [pop |-> reset, front |-> front])

\* calculateCrowdingDistance called on front k of this.paretoFronts
CalculateCrowdingDistance ==
    /\ \E k \in DOMAIN paretoFronts :
       \E out \in calculateCrowdingDistance(objectives, population, paretoFronts[k]) :
          /\ population' = out.pop
          /\ paretoFronts' = [paretoFronts EXCEPT ![k] = out.front]
          /\ crowded' = k
    /\ UNCHANGED <<objectives, newPopulation, requested, passed, threw, generations,
                   optimizeRun>>
    /\ UNCHANGED <<repo, calls>>
    /\ UNCHANGED <<worktrees, cleaned, nextSerial, lineages, engine>>
    /\ UNCHANGED <<mutationBranches, activeMutations, branchHistory, nextMutation,
                   balance>>

\* the front at frontIndex with its crowding distances, in each order the
\* call can leave; st = [pop, fronts, newPopulation, frontIndex]
CrowdedAt(objs, st) ==
    {[st EXCEPT !.pop = out.pop, !.fronts[st.frontIndex] = out.front] :
        out \in calculateCrowdingDistance(objs, st.pop, st.fronts[st.frontIndex])}

\* the fill of the remaining slots from the front that does not fit
Fill(objs, st, newPopulationSize) ==
    IF Len(st.newPopulation) < newPopulationSize /\ st.frontIndex <= Len(st.fronts)
    THEN LET remainingSlots == newPopulationSize - Len(st.newPopulation)
         IN  UNION {{[c EXCEPT !.fronts[c.frontIndex] = lastFront,
                               !.newPopulation =
                                   @ \o SubSeq(lastFront, 1,
                                               Min(remainingSlots, Len(lastFront)))] :
                        lastFront \in SortOutcomes(c.fronts[c.frontIndex],
                                        [id \in DOMAIN c.pop |-> c.pop[id].crowdingDistance],
                                        TRUE)} :
                    c \in CrowdedAt(objs, st)}
    ELSE {st}

\* newPopulation.length + this.paretoFronts[frontIndex].length <= newPopulationSize
Fits(taken, frontLength, newPopulationSize) ==
    taken + frontLength <= newPopulationSize

\* the while loop of selection
RECURSIVE SelectFrom(_, _, _)
SelectFrom(objs, st, newPopulationSize) ==
    IF Fits(Len(st.newPopulation), Len(st.fronts[st.frontIndex]), newPopulationSize)
    THEN UNION {LET next == [c EXCEPT !.newPopulation = @ \o c.fronts[c.frontIndex],
                                      !.frontIndex = @ + 1]
                IN  IF next.frontIndex > Len(next.fronts)
                    THEN Fill(objs, next, newPopulationSize)
                    ELSE SelectFrom(objs, next, newPopulationSize) :
                c \in CrowdedAt(objs, st)}
    ELSE Fill(objs, st, newPopulationSize)

\* selection(population, newPopulationSize): what it can return and leave
selection(objs, pop, fronts, newPopulationSize) ==
    SelectFrom(objs, [pop |-> pop, fronts |-> fronts, newPopulation |-> << >>,
                      frontIndex |-> 1], newPopulationSize)

\* sizes callers ask for
PopulationSizes == 0..MaxPopulation
\* selection(population, newPopulationSize) called with one of the given
\* populations.  Before any fastNonDominatedSort this.paretoFronts is empty:
\* the loop condition reads this.paretoFronts[0].length and throws.
Selection(populations) ==
    /\ \E newPopulationSize \in PopulationSizes :
          /\ requested' = newPopulationSize
          /\ IF paretoFronts = << >>
             THEN /\ threw' = TRUE
                  /\ newPopulation' = << >>
                  /\ passed' \in populations
                  /\ UNCHANGED <<population, paretoFronts>>
             ELSE \E out \in selection(objectives, population, paretoFronts,
                                       newPopulationSize) :
                     /\ threw' = FALSE
                     /\ population' = out.pop
                     /\ paretoFronts' = out.fronts
                     /\ newPopulation' = out.newPopulation
                     /\ passed' \in populations
    /\ UNCHANGED <<objectives, crowded, generations, optimizeRun>>
    /\ UNCHANGED <<repo, calls>>
    /\ UNCHANGED <<worktrees, cleaned, nextSerial, lineages, engine>>
    /\ UNCHANGED <<mutationBranches, activeMutations, branchHistory, nextMutation,
                   balance>>

\* fastNonDominatedSort called with the solutions ids of the evaluated
\* solutions pop, in that order: the evaluations it updates and the fronts
SubPopulationSort(objs, pop, ids) ==
    LET sorted == fastNonDominatedSort(objs, [k \in DOMAIN ids |-> pop[ids[k]]])
        Global(seq) == [j \in DOMAIN seq |-> ids[seq[j]]]
        Position(id) == CHOOSE k \in DOMAIN ids : ids[k] = id
    IN  [pop |-> [id \in DOMAIN pop |->
                    IF id \in Elements(ids)
                    THEN [sorted.pop[Position(id)] EXCEPT
                             !.dominatedSolutions = Global(@)]
                    ELSE pop[id]],
         fronts |-> [f \in DOMAIN sorted.fronts |-> Global(sorted.fronts[f])]]

\* no optimize() call was made
NoRun == [pc |-> "none", gen |-> 0, budget |-> 0, population |-> << >>]
\* Math.floor(this.populationSize / 2)
offspringSize == populationSize \div 2

\* hasConverged(population): false in the first four generations; from the
\* fifth on it reads this.evolutionHistory, a field the class never assigns,
\* and .slice of undefined throws a TypeError
hasConverged(gens) == IF gens < 5 THEN "false" ELSE "TypeError"

\* the solutions evaluateSolution adds for the outcomes of their evaluators
Evaluated(pop, outcomes) ==
    pop \o [k \in DOMAIN outcomes |-> NewEvaluation(outcomes[k])]
\* the entries these evaluations add to the histories of the objectives
Recorded(objs, first, outcomes) ==
    [i \in DOMAIN objs |->
        LET Resolved(k) == outcomes[k][i] # Rejects
            entries == [k \in DOMAIN outcomes |->
                          [solutionId |-> first + k, value |-> outcomes[k][i]]]
        IN  [objs[i] EXCEPT !.history =
                @ \o [j \in 1..Len(SelectSeq(Ids(Len(outcomes)), Resolved)) |->
                         entries[SelectSeq(Ids(Len(outcomes)), Resolved)[j]]]]]

\* optimize(initialPopulation, generations) up to the loop: the initial
\* population (of one of the given sizes) is evaluated
OptimizeStart(sizes, budgets, used) ==
    /\ optimizeRun.pc = "none"
    /\ population = << >>
    /\ \E n \in sizes, budget \in budgets :
       \E outcomes \in [1..n -> [DOMAIN objectives -> used]] :
          /\ population' = Evaluated(population, outcomes)
          /\ objectives' = Recorded(objectives, 0, outcomes)
          /\ optimizeRun' = [pc |-> "loop", gen |-> 0, budget |-> budget,
                     population |-> Ids(n)]
    /\ UNCHANGED <<paretoFronts, newPopulation, requested, passed, threw, crowded,
                   generations>>
    /\ UNCHANGED <<repo, calls>>
    /\ UNCHANGED <<worktrees, cleaned, nextSerial, lineages, engine>>
    /\ UNCHANGED <<mutationBranches, activeMutations, branchHistory, nextMutation,
                   balance>>

\* one round of the loop of optimize: sort, offspring, evaluation of the
\* offspring, sort of the combined population, selection, generation counter
\* and convergence check.  generateOffspring on an empty population throws:
\* tournamentSelection returns undefined and crossover reads parent1.id.
OptimizeRound(used) ==
    /\ optimizeRun.pc = "loop"
    /\ optimizeRun.gen < optimizeRun.budget
    /\ LET first == SubPopulationSort(objectives, population, optimizeRun.population)
       IN  IF offspringSize > 0 /\ optimizeRun.population = << >>
           THEN /\ population' = first.pop
                /\ paretoFronts' = first.fronts
                /\ optimizeRun' = [optimizeRun EXCEPT !.pc = "threw"]
                /\ UNCHANGED <<objectives, newPopulation, requested, passed, threw,
                               generations>>
           ELSE \E outcomes \in [1..offspringSize -> [DOMAIN objectives -> used]] :
                   LET offspring == [k \in 1..offspringSize |-> Len(population) + k]
                       combinedPopulation == optimizeRun.population \o offspring
                       second == SubPopulationSort(objectives,
                                                   Evaluated(first.pop, outcomes),
                                                   combinedPopulation)
                   IN  \E out \in selection(objectives, second.pop, second.fronts,
                                            populationSize) :
                          /\ objectives' = Recorded(objectives, Len(population), outcomes)
                          /\ population' = out.pop
                          /\ paretoFronts' = out.fronts
                          /\ newPopulation' = out.newPopulation
                          /\ requested' = populationSize
                          /\ passed' = Elements(combinedPopulation)
                          /\ threw' = FALSE
                          /\ generations' = optimizeRun.gen + 1
                          /\ optimizeRun' = [optimizeRun EXCEPT
                                        !.population = out.newPopulation,
                                        !.gen = @ + 1,
                                        !.pc = IF hasConverged(optimizeRun.gen + 1) = "false"
                                               THEN "loop" ELSE "threw"]
    /\ UNCHANGED crowded
    /\ UNCHANGED <<repo, calls>>
    /\ UNCHANGED <<worktrees, cleaned, nextSerial, lineages, engine>>
    /\ UNCHANGED <<mutationBranches, activeMutations, branchHistory, nextMutation,
                   balance>>

\* the end of optimize, after the loop: the final sort; analyzeResults and
\* the report only read
OptimizeFinish ==
    /\ optimizeRun.pc = "loop"
    /\ optimizeRun.gen >= optimizeRun.budget
    /\ LET final == SubPopulationSort(objectives, population, optimizeRun.population)
       IN  /\ population' = final.pop
           /\ paretoFronts' = final.fronts
    /\ optimizeRun' = [optimizeRun EXCEPT !.pc = "returned"]
    /\ UNCHANGED <<objectives, newPopulation, requested, passed, threw, crowded,
                   generations>>
    /\ UNCHANGED <<repo, calls>>
    /\ UNCHANGED <<worktrees, cleaned, nextSerial, lineages, engine>>
    /\ UNCHANGED <<mutationBranches, activeMutations, branchHistory, nextMutation,
                   balance>>

(* ----------------------- DivineInterventionEngine ---------------------- *)
\* interventions created in one run
MaxInterventions == 2
\* `divine_${Date.now()}`, taken as a fresh stamp per call
InterventionIds == 1..MaxInterventions
\* a task, as far as analyzeTask reads it: the first complexity indicator
\* and the first domain keyword it contains ("medium" and "general" for none)
Tasks == [level : {"low", "medium", "high"},
          keyword : {"general", "debugging", "cleanup"}]
\* analyzeTask: suggestedGods (the default and two rows of domainMappings)
suggestedGods(task) ==
    CASE task.keyword = "debugging" -> [light |-> "thor", shadow |-> "bhairava"]
      [] task.keyword = "cleanup" -> [light |-> "vidar", shadow |-> "kali"]
      [] OTHER -> [light |-> "odin", shadow |-> "shiva"]
\* interactiveGodSelection: the suggestion, or one name of each manual list
\* (two names of each list)
interactiveGodSelection(task) ==
    {suggestedGods(task)} \cup [light : {"odin", "freyr"}, shadow : {"kali", "shiva"}]

NoExecution == [pc |-> "none", id |-> 0, found |-> FALSE]
Phases == <<"light", "shadow", "synthesis">>

\* createIntervention(task, userPreferences): the record it puts in the map
CreateIntervention ==
    /\ DOMAIN interventions # InterventionIds
    /\ \E task \in Tasks, interactive \in BOOLEAN :
          \E gods \in (IF interactive THEN interactiveGodSelection(task)
                                      ELSE {suggestedGods(task)}) :
             LET interventionId == Cardinality(DOMAIN interventions) + 1
                 intervention == [status |-> "initializing",
                                  complexity |-> task.level,
                                  gods |-> gods,
                                  steps |-> << >>,
                                  finalResult |-> << >>,
                                  evolution |-> FALSE]
             IN  /\ interventions' =
                       [i \in DOMAIN interventions \cup {interventionId} |->
                           IF i = interventionId THEN intervention
                                                 ELSE interventions[i]]
                 /\ activeInterventions' = activeInterventions \cup {interventionId}
    /\ UNCHANGED <<interventionHistory, executeCall>>
    /\ UNCHANGED <<repo, balance, calls, worktrees, cleaned, nextSerial, lineages,
                   optimizer>>
    /\ UNCHANGED <<mutationBranches, activeMutations, branchHistory, nextMutation>>

\* what every step of executeIntervention leaves alone
UNCHANGED_DI ==
    /\ UNCHANGED <<repo, calls, worktrees, cleaned, nextSerial, lineages, optimizer>>
    /\ UNCHANGED <<mutationBranches, activeMutations, branchHistory, nextMutation>>

\* the call rejects where it stands
Thrown(call) == [call EXCEPT !.pc = "threw"]

\* executeIntervention up to its first suspension: the lookup, the status
\* and, in lightGodIntervention, ashvatthaTree.invokeGod, whose activateGod
\* throws before the first timer
ExecuteIntervention ==
    /\ executeCall.pc \in {"none", "returned", "threw"}
    /\ \E interventionId \in InterventionIds :
          IF interventionId \notin activeInterventions
          THEN /\ executeCall' = [pc |-> "threw", id |-> interventionId, found |-> FALSE]
               /\ UNCHANGED interventions
          ELSE LET call == [pc |-> "light", id |-> interventionId, found |-> TRUE]
               IN  /\ interventions' = [interventions EXCEPT ![interventionId].status = "executing"]
                   /\ executeCall' = IF GodKnown(interventions[interventionId].gods.light)
                                     THEN call ELSE Thrown(call)
    /\ UNCHANGED <<activeInterventions, interventionHistory, balance>>
    /\ UNCHANGED_DI

\* lightGodIntervention after its timers: the step and balanceForces(30, 0);
\* then shadowGodIntervention up to its invokeGod
LightGodIntervention ==
    /\ executeCall.pc = "light"
    /\ LET id == executeCall.id
       IN  /\ interventions' = [interventions EXCEPT ![id].steps = Append(@, "light")]
           /\ balance' = balanceForces(balance, 30, 0)
           /\ executeCall' = IF GodKnown(interventions[id].gods.shadow)
                             THEN [executeCall EXCEPT !.pc = "shadow"]
                             ELSE Thrown(executeCall)
    /\ UNCHANGED <<activeInterventions, interventionHistory>>
    /\ UNCHANGED_DI

\* shadowGodIntervention after its timers: the step and balanceForces(0, 25);
\* then synthesizeIntervention up to the lookups of invokeDualGods
ShadowGodIntervention ==
    /\ executeCall.pc = "shadow"
    /\ LET id == executeCall.id
           gods == interventions[id].gods
       IN  /\ interventions' = [interventions EXCEPT ![id].steps = Append(@, "shadow")]
           /\ balance' = balanceForces(balance, 0, 25)
           /\ executeCall' = IF DualGodsFound(gods.light, gods.shadow)
                             THEN [executeCall EXCEPT !.pc = "synthesis"]
                             ELSE Thrown(executeCall)
    /\ UNCHANGED <<activeInterventions, interventionHistory>>
    /\ UNCHANGED_DI

\* the end of executeIntervention: status, history and map
InterventionCompleted(id, intervention) ==
    /\ interventions' = [interventions EXCEPT ![id] = [intervention EXCEPT !.status = "completed"]]
    /\ interventionHistory' = Append(interventionHistory, id)
    /\ activeInterventions' = activeInterventions \ {id}
    /\ executeCall' = [executeCall EXCEPT !.pc = "returned"]

\* synthesizeIntervention after the timer of invokeDualGods: its
\* balanceForces(25, 25), the step and finalResult; executeIntervention then
\* ends, or waits for evolveWithGit when the complexity is high or divine
SynthesizeIntervention ==
    /\ executeCall.pc = "synthesis"
    /\ LET id == executeCall.id
           synthesized == [interventions[id] EXCEPT
                              !.steps = Append(@, "synthesis"),
                              !.finalResult = <<balance'>>]
       IN  /\ balance' = balanceForces(balance, 25, 25)
           /\ IF synthesized.complexity \in {"high", "divine"}
              THEN /\ interventions' = [interventions EXCEPT ![id] = synthesized]
                   /\ executeCall' = [executeCall EXCEPT !.pc = "evolve"]
                   /\ UNCHANGED <<activeInterventions, interventionHistory>>
              ELSE InterventionCompleted(id, synthesized)
    /\ UNCHANGED_DI

\* evolveWithGit: its GitEvolutionEngine works on a mutation of its own and
\* every failure is caught; intervention.evolution is set when it succeeds
EvolveWithGit ==
    /\ executeCall.pc = "evolve"
    /\ \E evolved \in BOOLEAN :
          InterventionCompleted(executeCall.id,
                    [interventions[executeCall.id] EXCEPT !.evolution = evolved])
    /\ UNCHANGED balance
    /\ UNCHANGED_DI

\* the state after the objectives were configured and before any evaluation
InitOptimizer ==
    /\ repo = InitRepo
    /\ worktrees = EmptyMap
    /\ cleaned = {}
    /\ nextSerial = 1
    /\ mutationBranches = EmptyMap
    /\ activeMutations = {}
    /\ branchHistory = << >>
    /\ nextMutation = 1
    /\ balance = 0
    /\ lineages = {}
    /\ objectives \in ObjectiveSets
    /\ population = << >>
    /\ paretoFronts = << >>
    /\ newPopulation = << >>
    /\ requested = -1
    /\ passed = {}
    /\ threw = FALSE
    /\ crowded = 0
    /\ generations = 0
    /\ optimizeRun = NoRun
    /\ interventions = EmptyMap
    /\ activeInterventions = {}
    /\ interventionHistory = << >>
    /\ executeCall = NoExecution
    /\ calls = [c \in Calls |-> Idle]

Init ==
    /\ repo = InitRepo
    /\ worktrees = EmptyMap
    /\ cleaned = {}
    /\ nextSerial = 1
    /\ mutationBranches = EmptyMap
    /\ activeMutations = {}
    /\ branchHistory = << >>
    /\ nextMutation = 1
    /\ balance = 0
    /\ lineages = {}
    /\ objectives = DefaultObjectives
    /\ population = << >>
    /\ paretoFronts = << >>
    /\ newPopulation = << >>
    /\ requested = -1
    /\ passed = {}
    /\ threw = FALSE
    /\ crowded = 0
    /\ generations = 0
    /\ optimizeRun = NoRun
    /\ interventions = EmptyMap
    /\ activeInterventions = {}
    /\ interventionHistory = << >>
    /\ executeCall = NoExecution
    /\ calls = [c \in Calls |-> Idle]

(* --------------------------- specifications --------------------------- *)
\* the step creates no more than the first n worktrees and mutations
Within(n) == nextSerial' <= n + 1 /\ nextMutation' <= n + 1
\* the call the step starts names no base branch but main
BasedOnMain == \A c \in Calls : calls'[c].branch \in {Main, NoBranch}
\* after the step no more than n commits are made or about to be made
CommitsWithin(n) ==
    Cardinality(DOMAIN repo.madeOn) + Cardinality(CommittingIn(calls')) <= n

\* both managers on the one repository, one call at a time (every call runs
\* to its end before the next one starts), on the first SeqIds worktrees
\* and the first SeqIds mutations
NextSeq ==
    \/ CreateWorktreeStart(1) /\ Within(SeqIds)
    \/ CreateWorktreeBranch(1)
    \/ CreateWorktreeCheckout(1)
    \/ CreateWorktreeAdd(1)
    \/ ApplyMutationStart(1)
    \/ ApplyMutationCommit(1)
    \/ ApplyMutationFitness(1)
    \/ MergeEvolutionStart(1)
    \/ MergeEvolutionCheckout(1)
    \/ MergeEvolutionMerge(1)
    \/ CleanupWorktreeStart(1)
    \/ CleanupWorktreeRemove(1)
    \/ CleanupWorktreeBranch(1)
    \/ CreateMutationStart(1) /\ Within(SeqIds)
    \/ CreateMutationCheckout(1)
    \/ CreateMutationBranch(1)
    \/ ApplyChangesStart(1)
    \/ ApplyChangesCheckout(1)
    \/ ApplyChangesCommit(1)
    \/ MergeMutationStart(1)
    \/ MergeMutationCheckout(1)
    \/ MergeMutationMerge(1)
    \/ AbandonMutationStart(1)
    \/ AbandonMutationCheckout(1)
    \/ AbandonMutationDelete(1)
SpecSeq == Init /\ [][NextSeq]_vars

\* the WorktreeManager alone, one call at a time, on the first two worktrees
NextWorktrees ==
    \/ CreateWorktreeStart(1) /\ Within(2)
    \/ CreateWorktreeBranch(1)
    \/ CreateWorktreeCheckout(1)
    \/ CreateWorktreeAdd(1)
    \/ ApplyMutationStart(1)
    \/ ApplyMutationCommit(1)
    \/ ApplyMutationFitness(1)
    \/ MergeEvolutionStart(1)
    \/ MergeEvolutionCheckout(1)
    \/ MergeEvolutionMerge(1)
    \/ PruneWorktreesStart(1)
    \/ PruneWorktreesRemove(1)
    \/ PruneWorktreesBranch(1)
SpecWorktrees == Init /\ [][NextWorktrees]_vars

\* overlapping allocation and cleanup calls: the operations that change the
\* size of the worktree pool
NextPool ==
    \E c \in Calls :
        \/ CreateWorktreeStart(c)
        \/ CreateWorktreeBranch(c)
        \/ CreateWorktreeCheckout(c)
        \/ CreateWorktreeAdd(c)
        \/ CleanupWorktreeStart(c)
        \/ CleanupWorktreeRemove(c)
        \/ CleanupWorktreeBranch(c)
SpecPool == Init /\ [][NextPool]_vars

\* overlapping create and abandon calls: the operations that change the size
\* of the active-mutation set without a commit
NextActive ==
    \E c \in Calls :
        \/ CreateMutationStart(c)
        \/ CreateMutationCheckout(c)
        \/ CreateMutationBranch(c)
        \/ AbandonMutationStart(c)
        \/ AbandonMutationCheckout(c)
        \/ AbandonMutationDelete(c)
SpecActive == Init /\ [][NextActive]_vars

\* overlapping create, applyChanges and merge calls on the first
\* SharedIds mutations
NextShared ==
    \E c \in Calls :
        \/ CreateMutationStart(c) /\ Within(SharedIds)
        \/ CreateMutationCheckout(c)
        \/ CreateMutationBranch(c)
        \/ ApplyChangesStart(c) /\ CommitsWithin(SharedCommits)
        \/ ApplyChangesCheckout(c)
        \/ ApplyChangesCommit(c)
        \/ MergeMutationStart(c)
        \/ MergeMutationCheckout(c)
        \/ MergeMutationMerge(c)
SpecShared == Init /\ [][NextShared]_vars

\* conflict probes between create and applyChanges calls, one call at a
\* time, on the first SharedIds mutations
NextProbe ==
    \/ CreateMutationStart(1) /\ Within(SharedIds)
    \/ CreateMutationCheckout(1)
    \/ CreateMutationBranch(1)
    \/ ApplyChangesStart(1)
    \/ ApplyChangesCheckout(1)
    \/ ApplyChangesCommit(1)
    \/ ProbeStart(1)
    \/ ProbeCurrent(1)
    \/ ProbeMerge(1)
    \/ ProbeStatus(1)
    \/ ProbeAbort(1)
    \/ ProbeCleanup(1)
    \/ ProbeRetry(1)
SpecProbe == Init /\ [][NextProbe]_vars

\* mutations are created and committed to, the balance is moved by other
\* components once the mutations are created, and the merger evaluates the
\* mutations, one call at a time
NextEvaluate ==
    \/ CreateMutationStart(1) /\ Within(EvaluateIds)
    \/ CreateMutationCheckout(1)
    \/ CreateMutationBranch(1)
    \/ ApplyChangesStart(1)
    \/ ApplyChangesCheckout(1)
    \/ ApplyChangesCommit(1)
    \/ BalanceForces /\ nextMutation > EvaluateIds
    \/ EvaluateStart(1)
    \/ ProbeCurrent(1)
    \/ ProbeMerge(1)
    \/ ProbeStatus(1)
    \/ ProbeAbort(1)
    \/ ProbeCleanup(1)
    \/ ProbeRetry(1)
SpecEvaluate == Init /\ [][NextEvaluate]_vars

\* mutations are created from main and committed to and the merger evaluates
\* and merges them, one call at a time
NextMerger ==
    \/ CreateMutationStart(1) /\ Within(SharedIds) /\ BasedOnMain
    \/ CreateMutationCheckout(1)
    \/ CreateMutationBranch(1)
    \/ ApplyChangesStart(1)
    \/ ApplyChangesCheckout(1)
    \/ ApplyChangesCommit(1)
    \/ ExecuteMergeStart(1)
    \/ ProbeCurrent(1)
    \/ ProbeMerge(1)
    \/ ProbeStatus(1)
    \/ ProbeAbort(1)
    \/ ProbeCleanup(1)
    \/ ProbeRetry(1)
    \/ ResolveConflicts(1)
    \/ GodWorkflow(1)
    \/ StrategyCheckout(1)
    \/ StrategyMerge(1)
    \/ StrategyResolution(1)
    \/ TreeLight(1)
    \/ TreeShadow(1)
SpecMerger == Init /\ [][NextMerger]_vars

\* overlapping births and terminations of lineages
NextBirth ==
    \E c \in Calls :
       \/ BirthStart(c)
       \/ BirthBlessing(c)
       \/ BirthRegister(c)
       \/ TerminateStart(c)
       \/ TerminateDelete(c)
SpecBirth == Init /\ [][NextBirth]_vars

\* births and terminations overlapping with allocations and cleanups of the
\* birther's own WorktreeManager, on the first SeqIds worktrees, while other
\* components move the balance
NextGenesis ==
    \/ BalanceForces
    \/ \E c \in Calls :
          \/ BirthStart(c)
          \/ BirthBlessing(c)
          \/ TerminateStart(c)
          \/ CreateWorktreeStart(c) /\ Within(SeqIds)
          \/ CreateWorktreeBranch(c)
          \/ CreateWorktreeCheckout(c)
          \/ CreateWorktreeAdd(c)
          \/ CleanupWorktreeStart(c)
          \/ CleanupWorktreeRemove(c)
          \/ CleanupWorktreeBranch(c)
SpecGenesis == Init /\ [][NextGenesis]_vars

\* interventions are created and executed one call after the other, while
\* other components move the balance
NextIntervention ==
    \/ CreateIntervention
    \/ ExecuteIntervention
    \/ BalanceForces
SpecIntervention == Init /\ [][NextIntervention]_vars

\* the same with the later phases of an execution
NextPhases ==
    \/ NextIntervention
    \/ LightGodIntervention
    \/ ShadowGodIntervention
    \/ SynthesizeIntervention
    \/ EvolveWithGit
SpecPhases == Init /\ [][NextPhases]_vars

\* no more than n solutions are evaluated
PopulationWithin(n) == Len(population') <= n
\* fewer than n solutions were evaluated so far
PopulationBelow(n) == Len(population) < n
\* no crowding distance was taken yet
Uncrowded == crowded = 0
\* the population is evaluated and then sorted once
Unsorted == paretoFronts = << >>
\* one selection is made
Unselected == requested = -1
\* the selection follows a sort
AfterSort == paretoFronts # << >>
\* no more than two objectives are left registered
InitFew == InitOptimizer /\ Len(objectives) <= 2

\* the evaluation of two solutions with every outcome of the evaluators,
\* and their sort
NextDominance ==
    \/ Unsorted /\ EvaluateSolution(EvaluatorOutcomes) /\ PopulationWithin(2)
    \/ Unsorted /\ FastNonDominatedSort
SpecDominance == InitFew /\ [][NextDominance]_vars

\* a population whose evaluators return small finite values and NaN is
\* evaluated, sorted and selected from
NextPareto ==
    \/ Unsorted /\ PopulationBelow(3) /\ EvaluateSolution({0, 1, NaN})
    \/ Unsorted /\ FastNonDominatedSort
    \/ Unselected /\ AfterSort /\ Selection({DOMAIN population})
SpecPareto == InitOptimizer /\ [][NextPareto]_vars

\* a population whose evaluators return small finite values and Infinity is
\* evaluated and sorted, and the crowding distances of its fronts are taken
NextCrowding ==
    \/ Unsorted /\ PopulationBelow(3) /\ EvaluateSolution({0, 1, PosInf})
    \/ Unsorted /\ FastNonDominatedSort
    \/ CalculateCrowdingDistance
SpecCrowding == InitOptimizer /\ [][NextCrowding]_vars

\* performance is maximized and complexity minimized (the other objectives
\* were removed); four solutions with finite values are evaluated and sorted,
\* and the crowding distances of one front are taken
InitTradeOff ==
    /\ InitOptimizer
    /\ objectives = <<DefaultObjectives[1], DefaultObjectives[3]>>
NextDistances ==
    \/ Unsorted /\ EvaluateSolution(0..MaxValue)
    \/ Unsorted /\ FastNonDominatedSort
    \/ Uncrowded /\ CalculateCrowdingDistance
SpecDistances == InitTradeOff /\ [][NextDistances]_vars

\* solutions are evaluated before and after the sorts, and one selection is
\* made from any part of the evaluated solutions
NextStale ==
    \/ Unselected /\ PopulationBelow(3) /\ EvaluateSolution({0, 1})
    \/ Unselected /\ FastNonDominatedSort
    \/ Unselected /\ Selection(SUBSET (DOMAIN population))
SpecStale == InitFew /\ [][NextStale]_vars

\* optimize() on an initial population of up to PopulationBound solutions
\* with every budget up to MaxGenerations; the evaluators return 0 or 1
NextOptimize ==
    \/ OptimizeStart(0..PopulationBound, 0..MaxGenerations, {0, 1})
    \/ OptimizeRound({0, 1})
    \/ OptimizeFinish
SpecOptimize == InitTradeOff /\ [][NextOptimize]_vars

(* ------------------------------- claims -------------------------------- *)
\* the step in which slot c takes a new call of method op
Starts(c, op) == ~InFlight(c) /\ calls'[c] # calls[c] /\ calls'[c].op = op
\* the step in which the call of method op in slot c ends
Ends(c, op) == InFlight(c) /\ calls[c].op = op /\ calls'[c].pc = "done"
PoolSize == Cardinality(DOMAIN worktrees)

\* C1: in every reachable state, also while several createEvolutionWorktree
\* calls are in flight, the pool holds at most maxWorktrees worktrees.
C1_PoolWithinBound == PoolSize <= maxWorktrees

\* C2: with maxWorktrees worktrees in the pool a createEvolutionWorktree call
\* ends with the capacity error and changes neither the pool nor the
\* repository; a successful cleanupWorktree on a full pool leaves one entry
\* fewer, and a create on a pool below the bound is not rejected for capacity.
C2_FullPoolRejectsUntilCleanup ==
    [][\A c \in Calls :
          /\ (Starts(c, "createEvolutionWorktree") /\ PoolSize = maxWorktrees)
                => /\ calls'[c].res = "capacity"
                   /\ UNCHANGED <<worktrees, repo, nextSerial>>
          /\ (Ends(c, "cleanupWorktree") /\ calls'[c].res = "ok"
                /\ PoolSize = maxWorktrees)
                => Cardinality(DOMAIN worktrees') = maxWorktrees - 1
          /\ (Starts(c, "createEvolutionWorktree") /\ PoolSize < maxWorktrees)
                => calls'[c].res # "capacity"]_vars

\* a worktree was cleaned up, the pool was filled again, and the create that
\* found it full was rejected
C2_Witness ==
    /\ PoolSize = maxWorktrees
    /\ cleaned # {}
    /\ \E c \in Calls : /\ calls[c].op = "createEvolutionWorktree"
                        /\ calls[c].res = "capacity"

\* C3: in every reachable state, also when createMutationBranch calls
\* overlap, at most maxConcurrentMutations mutations are active.
C3_ActiveWithinBound == Cardinality(activeMutations) <= maxConcurrentMutations

\* C4: every merge lands on the target branch its caller requested: when
\* mergeMutation returns true, the target branch holds the commits of the
\* mutation's branch.
C4_MergeLandsOnTarget ==
    [][\A c \in Calls :
          (calls[c].pc = "mm_merge" /\ calls'[c].res = "true")
             => repo'.head[MutationBranch(calls[c].mid)]
                   \subseteq repo'.head[calls[c].branch]]_vars

\* C5: every commit recorded in the commits list of mutation M was made on
\* M's own branch.
C5_CommitsOnOwnBranch ==
    \A m \in DOMAIN mutationBranches :
       \A i \in 1..Len(mutationBranches[m].commits) :
          repo.madeOn[mutationBranches[m].commits[i]] = MutationBranch(m)

\* C6: when checkMergeConflicts returns, no merge is in progress, the current
\* branch and every branch head are as they were when the probe started, and
\* the result is the empty list when the trial merge had no conflicts.
C6_ProbeRestoresRepository ==
    [][\A c \in Calls :
          Ends(c, "checkMergeConflicts")
             => /\ ~repo'.merging
                /\ Branches(repo') = calls[c].before
                /\ calls[c].trial \in {"clean", "uptodate"}
                      => calls'[c].res = "empty"]_vars

\* C7: checkMergeConflicts returns a non-empty list exactly when its trial
\* merge produced conflicted files, and a probe whose trial merge failed is
\* not reported as conflict-free.
C7_ConflictsReportedExactly ==
    [][\A c \in Calls :
          Ends(c, "checkMergeConflicts")
             => /\ calls'[c].res = "conflicts" <=> calls[c].trial = "conflict"
                /\ calls[c].trial = "failed" => calls'[c].res # "empty"]_vars

\* C8: when the abort of the trial merge has failed and the second abort
\* fails too (the merge is still in progress afterwards), the probe ends
\* with a fatal error, not with a normal result.
C8_SecondAbortFailureIsFatal ==
    [][\A c \in Calls :
          (calls[c].pc = "p_retry" /\ calls'[c].pc = "done" /\ repo'.merging)
             => calls'[c].res = "fatal"]_vars

\* C9: mergeEvolution and mergeMutation on an existing entry return false
\* exactly when its fitness is below the threshold passed, and the call that
\* returns false changes nothing but its own result.
C9_BelowThresholdMergeChangesNothing ==
    [][\A c \in Calls :
          /\ (Starts(c, "mergeEvolution") /\ calls'[c].res \in {"false", "pending"})
                => (calls'[c].res = "false" <=>
                       worktrees[calls'[c].wid].fitness < calls'[c].thr * FitnessScale)
          /\ (Starts(c, "mergeMutation") /\ calls'[c].res \in {"false", "pending"})
                => (calls'[c].res = "false" <=>
                       mutationBranches[calls'[c].mid].fitness
                          < calls'[c].thr * FitnessScale)
          /\ ((Starts(c, "mergeEvolution") \/ Starts(c, "mergeMutation"))
                /\ calls'[c].res = "false")
                => /\ calls'[c].pc = "done"
                   /\ UNCHANGED <<repo, worktrees, cleaned, mutationBranches,
                                  activeMutations, branchHistory, balance>>]_vars

\* mergeMutation returned false for an active mutation that has a commit and
\* a fitness above 0 but below the threshold passed
C9_Witness ==
    \E c \in Calls :
       /\ calls[c].op = "mergeMutation"
       /\ calls[c].res = "false"
       /\ calls[c].mid \in DOMAIN mutationBranches
       /\ mutationBranches[calls[c].mid].status = "active"
       /\ mutationBranches[calls[c].mid].fitness > 0
       /\ mutationBranches[calls[c].mid].fitness < calls[c].thr * FitnessScale

\* C10: a second cleanupWorktree call on a worktreeId is a no-op that does
\* not fail: no cleanupWorktree call ends with the not-found error.
C10_SecondCleanupDoesNotFail ==
    \A c \in Calls :
       calls[c].op = "cleanupWorktree" => calls[c].res # "notfound"

\* C11: an applyMutationChanges call on a mutation that a successful
\* abandonMutation left abandoned ends at once with the invalid-state error:
\* no checkout, no commit, and the mutation keeps its status, commits and
\* fitness.
C11_ApplyAfterAbandonIsRejected ==
    [][\A c \in Calls :
          (/\ Starts(c, "applyMutationChanges")
           /\ calls'[c].mid \in DOMAIN mutationBranches
           /\ mutationBranches[calls'[c].mid].status = "abandoned")
             => /\ calls'[c].res = "invalid"
                /\ calls'[c].pc = "done"
                /\ UNCHANGED <<repo, mutationBranches, activeMutations,
                               branchHistory, balance>>]_vars

\* an applyMutationChanges call was rejected on an abandoned mutation whose
\* branch is gone
C11_Witness ==
    \E c \in Calls :
       /\ calls[c].op = "applyMutationChanges"
       /\ calls[c].res = "invalid"
       /\ calls[c].mid \in DOMAIN mutationBranches
       /\ mutationBranches[calls[c].mid].status = "abandoned"
       /\ ~Exists(repo, MutationBranch(calls[c].mid))

\* C12: an abandonMutation call on a mutation that is already merged or
\* abandoned ends at once with the invalid-state error, and no step of such a
\* call changes a mutation's record, the history or any branch.
C12_AbandonOnTerminalIsRejected ==
    [][\A c \in Calls :
          /\ (/\ Starts(c, "abandonMutation")
              /\ mutationBranches[calls'[c].mid].status \in {"merged", "abandoned"})
                => /\ calls'[c].res = "invalid"
                   /\ calls'[c].pc = "done"
          /\ (/\ InFlight(c)
              /\ calls[c].op = "abandonMutation"
              /\ MutationOf(c).status \in {"merged", "abandoned"})
                => /\ UNCHANGED <<mutationBranches, branchHistory>>
                   /\ repo'.head = repo.head]_vars

\* C13: no mutation returns to status active once it has left it, and no step
\* of an applyMutationChanges or mergeMutation call changes the status of a
\* mutation that is merged or abandoned.
C13_StatusOnlyMovesForward ==
    [][\A mid \in DOMAIN mutationBranches :
          /\ mutationBranches[mid].status # "active"
                => mutationBranches'[mid].status # "active"
          /\ (/\ mutationBranches[mid].status \in {"merged", "abandoned"}
              /\ \E c \in Calls :
                    /\ InFlight(c)
                    /\ calls[c].op \in {"applyMutationChanges", "mergeMutation"})
                => mutationBranches'[mid].status = mutationBranches[mid].status]_vars

\* C14: an applyMutation call ends at once with the not-found error when the
\* worktreeId is not in the pool and with the invalid-state error when the
\* worktree's status is not active; in both cases no commit is made and no
\* worktree record changes.
C14_ApplyMutationRejectsUnknownAndInactive ==
    [][\A c \in Calls :
          Starts(c, "applyMutation") =>
             /\ calls'[c].wid \notin DOMAIN worktrees
                   => /\ calls'[c].res = "notfound"
                      /\ calls'[c].pc = "done"
                      /\ UNCHANGED <<repo, worktrees>>
             /\ (/\ calls'[c].wid \in DOMAIN worktrees
                 /\ worktrees[calls'[c].wid].status # "active")
                   => /\ calls'[c].res = "invalid"
                      /\ calls'[c].pc = "done"
                      /\ UNCHANGED <<repo, worktrees>>]_vars

\* the entries of every list of an evaluation
Entries(ev) ==
    {ev.eligible[i] : i \in DOMAIN ev.eligible}
       \cup {ev.pending[i] : i \in DOMAIN ev.pending}
       \cup {ev.rejected[i] : i \in DOMAIN ev.rejected}
       \cup {ev.conflicts[i] : i \in DOMAIN ev.conflicts}
\* evaluation.eligible is the list that holds entry e
InEligible(ev, e) == \E i \in DOMAIN ev.eligible : ev.eligible[i] = e
InPending(ev, e) == \E i \in DOMAIN ev.pending : ev.pending[i] = e

\* C15: every entry of an evaluation's eligible list has a fitness of at
\* least 60, no conflicts from its trial merge and a projected balance of
\* magnitude at most 80; an entry with such a fitness and no conflicts whose
\* projected balance is beyond 80 is in the pending list.
C15_EligibleMeetsAllCriteria ==
    \A c \in Calls :
    \A e \in Entries(calls[c].ev) :
       /\ InEligible(calls[c].ev, e)
             => /\ e.assessment.fitness >= 60 * FitnessScale
                /\ ~e.assessment.conflicts
                /\ e.assessment.projected <= 80
                /\ e.assessment.projected >= -80
       /\ (/\ e.assessment.fitness >= 60 * FitnessScale
           /\ ~e.assessment.conflicts
           /\ (e.assessment.projected > 80 \/ e.assessment.projected < -80))
             => InPending(calls[c].ev, e)

\* an evaluation has returned with one mutation eligible and another, of
\* sufficient fitness and free of conflicts, pending for its balance alone
C15_Witness ==
    \E c \in Calls :
       /\ calls[c].op = "evaluateMutationsForMerge"
       /\ calls[c].res = "evaluated"
       /\ Len(calls[c].ev.eligible) = 1
       /\ \E i \in DOMAIN calls[c].ev.pending :
             LET a == calls[c].ev.pending[i].assessment
             IN  /\ a.fitness >= 60 * FitnessScale
                 /\ ~a.conflicts
                 /\ a.needsImprovement
                 /\ a.projected > 80

\* the sum of the fitness of the mutations of s
RECURSIVE SumFitness(_)
SumFitness(s) ==
    IF s = << >> THEN 0
    ELSE mutationBranches[Head(s)].fitness + SumFitness(Tail(s))
\* the mutations whose git merge succeeded, in the order of the attempts
Succeeded(tried) ==
    LET ok == SelectSeq(tried, LAMBDA t : t.ok)
    IN  [i \in DOMAIN ok |-> ok[i].mid]

\* C16: fitnessBasedMerge passes the eligible mutations to git merge in
\* non-increasing order of fitness; merged is the number of merges that
\* succeeded and totalFitness the sum of the fitness of exactly those
\* mutations, and when the strategy returns every eligible mutation was tried.
C16_PriorityOrderAndTotals ==
    \A c \in Calls :
       (calls[c].op = "executeIntelligentMerge" /\ calls[c].strategy = "fitness_based")
          => /\ \A i, j \in DOMAIN calls[c].tried :
                   i < j => mutationBranches[calls[c].tried[i].mid].fitness
                               >= mutationBranches[calls[c].tried[j].mid].fitness
             /\ calls[c].merged = Len(Succeeded(calls[c].tried))
             /\ calls[c].total = SumFitness(Succeeded(calls[c].tried))
             /\ calls[c].res = "completed"
                   => Len(calls[c].tried) = Len(calls[c].ev.eligible)

\* fitnessBasedMerge has returned after merging two mutations that were
\* passed in increasing order of fitness
C16_Witness ==
    \E c \in Calls :
       /\ calls[c].op = "executeIntelligentMerge"
       /\ calls[c].strategy = "fitness_based"
       /\ calls[c].res = "completed"
       /\ Len(calls[c].muts) = 2
       /\ mutationBranches[calls[c].muts[1]].fitness
             < mutationBranches[calls[c].muts[2]].fitness
       /\ calls[c].merged = 2
       /\ calls[c].tried[1].mid = calls[c].muts[2]
       /\ calls[c].tried[1].ok /\ calls[c].tried[2].ok

\* C17: in every strategy what is thrown while the candidates are processed
\* is caught: an executeIntelligentMerge call whose checkout of the target
\* branch has not failed ends with status completed.
C17_CandidateFailuresAreCaught ==
    [][\A c \in Calls :
          (Ends(c, "executeIntelligentMerge") /\ calls[c].pc # "x_checkout")
             => calls'[c].res = "completed"]_vars

\* C18: conflictResolvedMerge handles a conflicted mutation only after every
\* eligible mutation was passed to git merge, and every mutation it counts as
\* merged was passed to git merge and that merge succeeded.
C18_CountedWereMerged ==
    \A c \in Calls :
       (calls[c].op = "executeIntelligentMerge"
           /\ calls[c].strategy = "conflict_resolved")
          => /\ calls[c].pc = "x_resolution"
                   => Len(calls[c].tried) = Len(calls[c].ev.eligible)
             /\ \A i \in DOMAIN calls[c].counted :
                   \E j \in DOMAIN calls[c].tried :
                      /\ calls[c].tried[j].mid = calls[c].counted[i]
                      /\ calls[c].tried[j].ok

\* the number of eligible mutations of a realm
EligibleOf(rec, realm) ==
    Cardinality({i \in DOMAIN rec.ev.eligible :
                    mutationBranches[rec.ev.eligible[i].mid].realm = realm})

LineagesStayEmpty == lineages = {}

\* C21: a birthNewLineage call that passed the capacity check and whose god
\* pair was found succeeds: it returns the record and the lineage is in the
\* map of lineages (with its genesis generation).
C21_BirthCreatesLineage ==
    [][\A c \in Calls :
          (calls[c].pc = "bl_blessing" /\ calls'[c].pc = "done")
             => (calls'[c].res = "ok" /\ calls[c].lid \in lineages')]_vars

\* solution a is strictly better than solution b on objective o, in the
\* direction of the objective
Better(o, a, b) ==
    IF objectives[o].maximize
    THEN Gt(population[a].objectives[o], population[b].objectives[o])
    ELSE Lt(population[a].objectives[o], population[b].objectives[o])
\* a is not worse than b on any objective and strictly better on one
ParetoDominates(a, b) ==
    /\ \A o \in DOMAIN objectives : ~Better(o, b, a)
    /\ \E o \in DOMAIN objectives : Better(o, a, b)
Solutions == DOMAIN population
\* the places (front, position) at which solution id stands in the fronts
Places(id) ==
    {pl \in UNION {{<<k, m>> : m \in DOMAIN paretoFronts[k]} : k \in DOMAIN paretoFronts} :
        paretoFronts[pl[1]][pl[2]] = id}
\* every objective value of the population is a finite number
AllFinite ==
    \A id \in Solutions : \A o \in DOMAIN objectives :
       Finite(population[id].objectives[o])

\* C26: the fronts fastNonDominatedSort returns partition the population
\* (every solution stands in exactly one front, once), the first front is
\* exactly the set of solutions no other solution dominates, and every
\* member of a later front is dominated by a member of the front before it.
C26_FrontsPartitionPopulation ==
    paretoFronts # << >> =>
       /\ \A id \in Solutions : Cardinality(Places(id)) = 1
       /\ Elements(paretoFronts[1]) =
             {id \in Solutions : \A other \in Solutions : ~ParetoDominates(other, id)}
       /\ \A k \in DOMAIN paretoFronts : k > 1 =>
             \A id \in Elements(paretoFronts[k]) :
                \E other \in Elements(paretoFronts[k - 1]) : ParetoDominates(other, id)
\* the same for the populations whose objective values are all finite
FiniteFrontsPartitionPopulation == AllFinite => C26_FrontsPartitionPopulation

\* C27: for all evaluated solutions a and b, dominates(a, b) and
\* dominates(b, a) are never both true, and dominates(a, b) holds exactly
\* when a is not worse than b on any registered objective, in the direction
\* of that objective, and strictly better on at least one.
C27_DominatesIsParetoDominance ==
    \A a, b \in Solutions :
       /\ ~(/\ dominates(objectives, population[a], population[b])
            /\ dominates(objectives, population[b], population[a]))
       /\ dominates(objectives, population[a], population[b]) <=> ParetoDominates(a, b)
\* two solutions of which the first dominates the second by its smaller
\* value on the minimized objective, being equal elsewhere
C27_Witness ==
    /\ Len(population) = 2
    /\ Len(objectives) = 2
    /\ dominates(objectives, population[1], population[2])
    /\ \E o \in DOMAIN objectives :
          /\ ~objectives[o].maximize
          /\ population[1].objectives[o] < population[2].objectives[o]
          /\ Finite(population[2].objectives[o])
    /\ \E o \in DOMAIN objectives :
          /\ objectives[o].maximize
          /\ population[1].objectives[o] = population[2].objectives[o]

\* solution id alone has the best, or alone has the worst, value of the
\* front on objective o: it is first or last however the front is sorted
OnlyExtreme(front, id, o) ==
    \/ \A other \in Elements(front) \ {id} : Better(o, id, other)
    \/ \A other \in Elements(front) \ {id} : Better(o, other, id)

\* C28: after calculateCrowdingDistance(front) every member that is first or
\* last of the sorted front on at least one objective has the crowding
\* distance Infinity, and so has every member of a front of at most two.
C28_BoundaryMembersGetInfinity ==
    crowded # 0 =>
       LET front == paretoFronts[crowded]
       IN  \A id \in Elements(front) :
              (\/ Len(front) <= 2
               \/ \E o \in DOMAIN objectives : OnlyExtreme(front, id, o))
                 => population[id].crowdingDistance = PosInf
\* the same for the populations whose objective values are all finite
FiniteBoundaryMembersGetInfinity == AllFinite => C28_BoundaryMembersGetInfinity

\* the members of the first k fronts
InFronts(k) == UNION {Elements(paretoFronts[j]) : j \in 1..k}
Selected == Elements(newPopulation)
\* crowding distance a is not lower than b
AtLeast(a, b) == ~Lt(a, b)

\* C29: selection(pop, N) after fastNonDominatedSort(pop) returns exactly
\* min(N, |pop|) solutions: every member of the first k fronts, for the
\* largest k for which these fit, then the members of the next front with
\* the highest crowding distance, and no member of a later front.
C29_SelectionTakesFrontsInOrder ==
    (requested >= 0 /\ ~threw) =>
       /\ Len(newPopulation) = Min(requested, Len(population))
       /\ Cardinality(Selected) = Len(newPopulation)
       /\ \E k \in 0..Len(paretoFronts) :
             /\ Cardinality(InFronts(k)) <= requested
             /\ k < Len(paretoFronts) =>
                   Cardinality(InFronts(k + 1)) > requested
             /\ InFronts(k) \subseteq Selected
             /\ Selected \subseteq InFronts(Min(k + 1, Len(paretoFronts)))
             /\ \A id \in Selected \ InFronts(k) :
                \A other \in InFronts(Min(k + 1, Len(paretoFronts))) \ Selected :
                   AtLeast(population[id].crowdingDistance,
                           population[other].crowdingDistance)
\* the same for the populations whose objective values are all finite
FiniteSelectionTakesFrontsInOrder == AllFinite => C29_SelectionTakesFrontsInOrder

\* the value the evaluator of objective o returned for solution id, or
\* Rejects when the history of the objective has no entry for it
EvaluatorReturned(o, id) ==
    LET h == objectives[o].history
        Entry(k) == h[k].solutionId = id
    IN  IF \E k \in DOMAIN h : Entry(k)
        THEN h[CHOOSE k \in DOMAIN h : Entry(k)].value
        ELSE Rejects

\* C30: an objective whose evaluator throws or returns a non-finite value
\* contributes the value 0 to the evaluation of the solution; the other
\* objectives keep the values their evaluators returned.
C30_FailedEvaluatorCountsZero ==
    \A id \in Solutions : \A o \in DOMAIN objectives :
       population[id].objectives[o] =
          (IF EvaluatorReturned(o, id) = Rejects \/ ~Finite(EvaluatorReturned(o, id))
           THEN 0 ELSE EvaluatorReturned(o, id))

\* C34: after calculateCrowdingDistance(front) on a front of more than 2
\* members with finite objective values, every member's crowding distance is
\* non-negative (Infinity or a sum of gaps divided by positive ranges).
C34_CrowdingDistancesNonNegative ==
    (crowded # 0 /\ AllFinite) =>
       LET front == paretoFronts[crowded]
       IN  Len(front) > 2 =>
              \A id \in Elements(front) :
                 /\ population[id].crowdingDistance # NaN
                 /\ population[id].crowdingDistance >= 0

\* C40: every solution selection(population, N) returns is a member of the
\* population passed to that call, whatever was sorted before, and a
\* selection before any sort returns a result rather than failing.
C40_SelectionFromPassedPopulation ==
    requested >= 0 => (~threw /\ Selected \subseteq passed)

\* C31: optimize(initialPopulation, G) on a population that is not empty
\* returns its result for every budget G >= 0: it never fails, in particular
\* not in the convergence check, and it runs at most G rounds.
C31_OptimizeReturns ==
    optimizeRun.population # << >> =>
       /\ optimizeRun.pc # "threw"
       /\ optimizeRun.gen <= optimizeRun.budget
\* the same for the runs that end before the fifth generation
ShortRunsReturn == generations < 5 => C31_OptimizeReturns

\* C32: after pruneLowFitnessWorktrees(threshold) returns, no active
\* worktree with a fitness below the threshold is left in the pool, the
\* worktrees it did not list are still there, and the count it returns is
\* the number of worktrees that were cleaned.
C32_PruneCleansAndCounts ==
    \A c \in Calls :
       (calls[c].op = "pruneLowFitnessWorktrees" /\ calls[c].pc = "done") =>
          /\ LowFitness(worktrees, calls[c].thr) = << >>
          /\ Elements(calls[c].before) \subseteq DOMAIN worktrees
          /\ calls[c].total = Cardinality(Elements(calls[c].muts) \cap cleaned)

\* C35: in every reachable state the active set of the MutationBrancher
\* holds exactly the mutations whose status is active; a mutation whose
\* status became error or merge_failed occupies no slot.
C35_ActiveSetIsStatusActive ==
    activeMutations =
       {mid \in DOMAIN mutationBranches : mutationBranches[mid].status = "active"}

ActiveWorktrees == {wid \in DOMAIN worktrees : worktrees[wid].status = "active"}
\* C36: createEvolutionWorktree fails for capacity only when maxWorktrees
\* worktrees are active; merged and merge_failed worktrees do not count.
C36_OnlyActiveWorktreesCount ==
    \A c \in Calls :
       (/\ calls[c].op = "createEvolutionWorktree"
        /\ calls[c].pc = "done"
        /\ calls[c].res = "capacity")
          => Cardinality(ActiveWorktrees) >= maxWorktrees

\* C37: the branch createEvolutionWorktree or createMutationBranch creates
\* starts at the head of the baseBranch the caller passed, whichever branch
\* was checked out before the call.
C37_BranchesStartAtBase ==
    [][\A c \in Calls :
          /\ (calls[c].pc = "cw_branch" /\ calls'[c].pc = "cw_checkout")
                => repo'.head[EvolutionBranch(calls[c].wid[1])] =
                      repo.head[calls[c].branch]
          /\ (calls[c].pc = "mb_branch" /\ calls'[c].pc = "done"
                                        /\ calls'[c].res = "ok")
                => repo'.head[MutationBranch(calls[c].mid)] =
                      repo.head[calls[c].branch]]_vars

\* C38: when createEvolutionWorktree fails after an await, the pool has no
\* entry for the attempt and the repository keeps neither the worktree nor
\* the branch the attempt created.
C38_FailedAllocationLeavesNothing ==
    [][\A c \in Calls :
          (/\ calls[c].op = "createEvolutionWorktree"
           /\ InFlight(c)
           /\ calls'[c].pc = "done"
           /\ calls'[c].res = "error")
             => /\ calls[c].wid \notin DOMAIN worktrees'
                /\ calls[c].wid \notin DOMAIN repo'.wt
                /\ calls[c].pc # "cw_branch"
                      => ~Exists(repo', EvolutionBranch(calls[c].wid[1]))]_vars
\* no execution gets past its first phase: the names createIntervention
\* assigns are not registered in the pantheon
NoPhaseCompletes ==
    /\ interventionHistory = << >>
    /\ \A i \in DOMAIN interventions : interventions[i].steps = << >>
    /\ executeCall.pc \in {"none", "threw"}

\* C33: an executeIntervention call on an intervention that createIntervention
\* put in the map appends the steps light, shadow and synthesis in that order
\* and ends with status completed, a balance in finalResult, and the
\* intervention moved from activeInterventions to interventionHistory.
C33_ExecutionCompletes ==
    /\ \A i \in DOMAIN interventions :
          LET steps == interventions[i].steps
          IN  Len(steps) <= Len(Phases) /\ steps = SubSeq(Phases, 1, Len(steps))
    /\ (executeCall.found /\ executeCall.pc \in {"returned", "threw"}) =>
          LET intervention == interventions[executeCall.id]
          IN  /\ executeCall.pc = "returned"
              /\ intervention.steps = Phases
              /\ intervention.status = "completed"
              /\ intervention.finalResult # << >>
              /\ executeCall.id \notin activeInterventions
              /\ \E k \in DOMAIN interventionHistory :
                    interventionHistory[k] = executeCall.id


====
